---- MODULE Spec2Model ----
(***************************************************************************)
(* Model of the QAE risk-analysis result pipeline and of the job manager:  *)
(*   src/problems/03_qae_risk/python/analyze.py                            *)
(*       QAERiskAnalyzer.run_quantum_estimation, _compose_ensemble_payload,*)
(*       run_quantum_ensemble, load_estimation_results                     *)
(*   src/problems/03_qae_risk/python/update_calibration_history.py         *)
(*       _parse_timestamp, _load_ensemble_record, _load_single_record,     *)
(*       load_latest, append_history, main                                 *)
(*   src/tooling/azq/job_manager.py                                        *)
(*       AzureQuantumManager.wait_for_completion, run_job_complete, main   *)
(*                                                                         *)
(* Numbers.  Python floats are modelled as fixed-point integers counted in *)
(* units of 1/Unit (1e-5); a division rounds down to that resolution.      *)
(* Optional values (Python None) are sequences of length 0 or 1.           *)
(*                                                                         *)
(* The specifications share one list of variables.  In SpecConcurrent pc,  *)
(* ens and arg are functions over the two invocations of append_history;   *)
(* in SpecJob clock is time.time() in polling sleeps, ens holds the locals *)
(* of the wait, and started and finished log the CLI calls and the replies *)
(* to the status queries.                                                  *)
(***************************************************************************)
EXTENDS Integers, Sequences, FiniteSets, TLC

VARIABLES
    clock,                  \* last reading of datetime.utcnow()
    estimateFile,           \* estimates/quantum_estimate.json
    ensembleFile,           \* estimates/quantum_estimate_ensemble.json
    runFiles,               \* estimates/quantum_estimate_run{i}.json
    historyFile,            \* estimates/quantum_calibration_history.json
    latest_quantum_result,  \* QAERiskAnalyzer.latest_quantum_result
    pc,                     \* position of the analyzer's control
    caller,                 \* who invoked the run_quantum_estimation in progress
    ens,                    \* locals of run_quantum_ensemble: runs, idx, results
    returned,               \* value returned by the last finished call
    started,                \* log: run indices run_quantum_ensemble has started
    finished,               \* log: what each started run returned, in order
    atCall,                 \* log: the documents on disk when run_quantum_ensemble was entered
    lastProducer,           \* log: mode of the last invocation that wrote an artifact
    appendLog,              \* log: the append_history calls made so far
    arg                     \* input of the pure-function specifications

vars == <<clock, estimateFile, ensembleFile, runFiles, historyFile,
          latest_quantum_result, pc, caller, ens, returned, started, finished,
          atCall,
          lastProducer, appendLog, arg>>

----------------------------------------------------------------------------
(* Bounds of the model *)

\* largest reading of the clock
MaxClock == 3
\* largest run count requested from run_quantum_ensemble
MaxRuns == 2
\* largest number of records in the history file
MaxRecords == 2
\* longest list of run records handed to _compose_ensemble_payload
MaxResults == 3

\* fixed-point resolution: a float x is the integer x * Unit (1e-5)
Unit == 10 * 10000
\* resolution of math.sqrt(n) for a count n: 1e-4
RootUnit == 100 * 100
\* resolution of relative_error_percent: 0.01 percent
PercentUnit == 10 * 10
\* datetime.min, below every clock reading
MinTime == 0

----------------------------------------------------------------------------
(* Python values *)

None == <<>>
Some(v) == <<v>>
IsNone(o) == o = <<>>
Val(o) == o[1]

\* Python "a or b" on optional numbers: a when it is truthy (not None, not 0)
PyOr(a, b) == IF ~IsNone(a) /\ Val(a) # 0 THEN a ELSE b

Abs(x) == IF x < 0 THEN -x ELSE x

RECURSIVE SumSeq(_)
SumSeq(s) == IF s = <<>> THEN 0 ELSE Head(s) + SumSeq(Tail(s))

\* floor of the square root
RECURSIVE ISqrtIn(_, _, _)
ISqrtIn(n, lo, hi) ==
    IF lo = hi THEN lo
    ELSE LET mid == (lo + hi + 1) \div 2
         IN  IF mid * mid <= n THEN ISqrtIn(n, mid, hi) ELSE ISqrtIn(n, lo, mid - 1)
ISqrt(n) == ISqrtIn(n, 0, 46340)

\* dict.get(key): None when the key is absent
Get(d, key) == IF key \in DOMAIN d THEN d[key] ELSE None

\* datetime.utcnow().isoformat() + "Z": a string with the UTC suffix
IsoZ(now) == [kind |-> "aware", t |-> now]

----------------------------------------------------------------------------
(* analyze.py: run_quantum_estimation, from the parsed fields on *)

\* What the regular expressions extracted from one run's console output.
\* A field the text does not report is None.
ParsedFields(est, err, ana, diff, bits, reps) ==
    [quantum_estimate |-> est, quantum_std |-> err, analytic_prob |-> ana,
     difference |-> diff, phase_bits |-> bits, repeats |-> reps]

\* analyze.py:247-248
Difference(p) ==
    IF IsNone(p.difference) /\ ~IsNone(p.quantum_estimate) /\ ~IsNone(p.analytic_prob)
    THEN Some(Val(p.quantum_estimate) - Val(p.analytic_prob))
    ELSE p.difference

\* analyze.py:285-318, the fields the later stages read
ResultPayload(p, now) ==
    [timestamp |-> IsoZ(now),
     instance |-> [parameters |-> [phase_bits |-> p.phase_bits,
                                   repetitions |-> p.repeats]],
     metrics |-> [phase_bits |-> p.phase_bits,
                  repetitions |-> p.repeats,
                  quantum_estimate |-> p.quantum_estimate,
                  quantum_std_error |-> p.quantum_std,
                  analytic_probability |-> p.analytic_prob,
                  difference |-> Difference(p)]]

\* a record produced from any output that was read, amplitude or not
EstimationProducesUnparsed(outcome) == outcome.status = "parsed"

\* The outcome of the external process and of the parse: "failed" stands for
\* CalledProcessError / FileNotFoundError / a missing Q# directory, "parsed"
\* for console output that was read.  analyze.py:272, 329-341: a result is
\* produced only when the amplitude estimate was parsed.
EstimationProduces(outcome) ==
    outcome.status = "parsed" /\ ~IsNone(outcome.fields.quantum_estimate)

----------------------------------------------------------------------------
(* analyze.py: _compose_ensemble_payload *)

\* _collect_float counting a missing value as 0
RECURSIVE CollectFloatZeroFilled(_, _)
CollectFloatZeroFilled(results, key) ==
    IF results = <<>> THEN <<>>
    ELSE LET value == Get(Head(results).metrics, key)
         IN  <<IF IsNone(value) THEN 0 ELSE Val(value)>>
             \o CollectFloatZeroFilled(Tail(results), key)

\* _collect_float (analyze.py:370-376): the values of metrics[key] that are
\* numbers, in list order; a None is skipped
RECURSIVE CollectFloat(_, _)
CollectFloat(results, key) ==
    IF results = <<>> THEN <<>>
    ELSE LET value == Get(Head(results).metrics, key)
         IN  (IF IsNone(value) THEN <<>> ELSE <<Val(value)>>)
             \o CollectFloat(Tail(results), key)

\* statistics.mean of a non-empty list
Mean(values) == SumSeq(values) \div Len(values)

\* statistics.pstdev of a non-empty list: sqrt(sum((x - mean)^2) / n), with
\* the deviations kept exact as n*x - sum
PStdev(values) ==
    LET n == Len(values)
        total == SumSeq(values)
        squares == [i \in 1..n |-> (n * values[i] - total) * (n * values[i] - total)]
    IN  ISqrt(SumSeq(squares) \div n) \div n

\* analyze.py:384-393
MeanOrNone(values) == IF values # <<>> THEN Some(Mean(values)) ELSE None
StdOrNone(values) == IF values # <<>> THEN Some(PStdev(values)) ELSE None
\* amplitude_std / math.sqrt(len(amplitude_values))
StdErrorOrNone(values) ==
    IF values # <<>>
    THEN Some((PStdev(values) * RootUnit) \div ISqrt(Len(values) * RootUnit * RootUnit))
    ELSE None

\* the run list numbered from 0, as enumerate() counts
EnsembleRunsFromZero(results) ==
    [idx \in 1..Len(results) |->
        [index |-> idx - 1,
         timestamp |-> results[idx].timestamp,
         metrics |-> results[idx].metrics]]

\* analyze.py:425-435: the per-run entries, numbered from 1
EnsembleRuns(results) ==
    [idx \in 1..Len(results) |->
        [index |-> idx,
         timestamp |-> results[idx].timestamp,
         metrics |-> results[idx].metrics]]

\* analyze.py:366-443; results is non-empty (the caller checks, analyze.py:466)
ComposeEnsemblePayload(results, runs_requested, now) ==
    LET amplitude_values == CollectFloat(results, "quantum_estimate")
        std_error_values == CollectFloat(results, "quantum_std_error")
        difference_values == CollectFloat(results, "difference")
        first_result == results[1]
        base_metrics == first_result.metrics
    IN  [timestamp |-> IsoZ(now),
         instance |-> first_result.instance,
         metrics |-> [ensemble_runs |-> Some(Len(results)),
                      runs_requested |-> Some(runs_requested),
                      quantum_estimate |-> MeanOrNone(amplitude_values),
                      ensemble_std_deviation |-> StdOrNone(amplitude_values),
                      ensemble_std_error |-> StdErrorOrNone(amplitude_values),
                      mean_reported_std_error |-> MeanOrNone(std_error_values),
                      mean_difference |-> MeanOrNone(difference_values),
                      phase_bits |-> Get(base_metrics, "phase_bits"),
                      repetitions |-> Get(base_metrics, "repetitions")],
         ensemble |-> [runs |-> EnsembleRuns(results)]]

----------------------------------------------------------------------------
(* update_calibration_history.py *)

\* A timestamp string as stored in a document is one of
\*   [kind |-> "aware", t]  ISO-8601 with the "Z" suffix
\*   [kind |-> "naive", t]  ISO-8601 without a UTC offset
\*   [kind |-> "bad"]       a string fromisoformat rejects
\*   [kind |-> "missing"]   no timestamp key, None, "" or not a string
NoTimestamp == [kind |-> "missing", t |-> MinTime]
BadTimestamp == [kind |-> "bad", t |-> MinTime]

\* _as_float (13-19): a number as a float, None for None
AsFloat(value) == IF IsNone(value) THEN None ELSE Some(Val(value))

\* _parse_timestamp (22-28).  The result is a datetime: its reading t and
\* whether it carries a UTC offset.  value.replace("Z", "+00:00") makes the
\* "Z" form offset-aware; datetime.min is offset-naive.
ParseTimestamp(value) ==
    IF value.kind \in {"missing", "bad"} THEN [tz |-> "naive", t |-> MinTime]
    ELSE [tz |-> value.kind, t |-> value.t]

\* _load_ensemble_record (31-53)
LoadEnsembleRecord(payload) ==
    LET metrics == payload.metrics
        instance == payload.instance.parameters
        runs == PyOr(PyOr(Get(metrics, "ensemble_runs"), Get(metrics, "runs_requested")),
                     Some(0))
        direct == AsFloat(Get(metrics, "analytic_probability"))
        runs_data == payload.ensemble.runs
        theoretical ==
            IF IsNone(direct) /\ runs_data # <<>>
            THEN AsFloat(Get(runs_data[1].metrics, "analytic_probability"))
            ELSE direct
    IN  [source |-> "ensemble",
         timestamp |-> payload.timestamp,
         phase_bits |-> PyOr(Get(instance, "phase_bits"), Get(metrics, "phase_bits")),
         repetitions |-> PyOr(Get(instance, "repetitions"), Get(metrics, "repetitions")),
         runs |-> Val(runs),
         quantum_estimate |-> AsFloat(Get(metrics, "quantum_estimate")),
         std_error |-> AsFloat(PyOr(Get(metrics, "ensemble_std_error"),
                                    Get(metrics, "mean_reported_std_error"))),
         theoretical |-> theoretical,
         mean_difference |-> AsFloat(Get(metrics, "mean_difference"))]

\* _load_single_record (56-75)
LoadSingleRecord(payload) ==
    LET metrics == payload.metrics
        instance == payload.instance.parameters
        theoretical == AsFloat(Get(metrics, "analytic_probability"))
        estimate == AsFloat(Get(metrics, "quantum_estimate"))
        diff == IF ~IsNone(theoretical) /\ ~IsNone(estimate)
                THEN Some(Val(estimate) - Val(theoretical))
                ELSE None
    IN  [source |-> "single",
         timestamp |-> payload.timestamp,
         phase_bits |-> PyOr(Get(instance, "phase_bits"), Get(metrics, "phase_bits")),
         repetitions |-> PyOr(Get(instance, "repetitions"), Get(metrics, "repetitions")),
         runs |-> 1,
         quantum_estimate |-> estimate,
         std_error |-> AsFloat(Get(metrics, "quantum_std_error")),
         theoretical |-> theoretical,
         mean_difference |-> diff]

\* The result of a call: a value, or the exception it raised
Ok(v) == [status |-> "ok", value |-> Some(v)]
Raised(exc) == [status |-> exc, value |-> None]

\* the comparison with ">=" in place of ">": the last of equal keys would win
DatetimeGe(a, b) ==
    IF a.tz # b.tz THEN [status |-> "TypeError", value |-> None]
    ELSE [status |-> "ok", value |-> Some(a.t >= b.t)]

\* datetime.__gt__: ordering an offset-naive against an offset-aware datetime
\* raises TypeError
DatetimeGt(a, b) ==
    IF a.tz # b.tz THEN Raised("TypeError") ELSE Ok(a.t > b.t)

\* max(candidates, key=...) (91): the first candidate with the greatest key;
\* a later candidate replaces the current one only when its key is greater
RECURSIVE MaxByTimestamp(_, _)
MaxByTimestamp(best, rest) ==
    IF rest = <<>> THEN Ok(best)
    ELSE LET cmp == DatetimeGt(ParseTimestamp(Head(rest).timestamp),
                               ParseTimestamp(best.timestamp))
         IN  IF cmp.status # "ok" THEN cmp
             ELSE IF Val(cmp.value) THEN MaxByTimestamp(Head(rest), Tail(rest))
             ELSE MaxByTimestamp(best, Tail(rest))

\* load_latest without its "if not candidates" check: max() of an empty list
\* raises ValueError
LoadLatestUnchecked(ensemble, single) ==
    LET candidates ==
            (IF ~IsNone(ensemble) THEN <<LoadEnsembleRecord(Val(ensemble))>> ELSE <<>>)
            \o (IF ~IsNone(single) THEN <<LoadSingleRecord(Val(single))>> ELSE <<>>)
    IN  IF candidates = <<>> THEN [status |-> "ValueError", value |-> None]
        ELSE MaxByTimestamp(Head(candidates), Tail(candidates))

\* load_latest (78-91); a file is None when it does not exist
LoadLatest(ensemble, single) ==
    LET candidates ==
            (IF ~IsNone(ensemble) THEN <<LoadEnsembleRecord(Val(ensemble))>> ELSE <<>>)
            \o (IF ~IsNone(single) THEN <<LoadSingleRecord(Val(single))>> ELSE <<>>)
    IN  IF candidates = <<>> THEN Raised("FileNotFoundError")
        ELSE MaxByTimestamp(Head(candidates), Tail(candidates))

\* A history document: its "records" member is a list, is missing, or is
\* something else (null, a string, a number), and its last_updated_utc
HistoryDoc(tag, records, stamp) ==
    [records |-> [tag |-> tag, val |-> records], last_updated_utc |-> stamp]

\* append_history putting the new record first
AppendHistoryInFront(file, record, now) ==
    LET history == IF ~IsNone(file) THEN Val(file)
                   ELSE [records |-> [tag |-> "list", val |-> <<>>],
                         last_updated_utc |-> NoTimestamp]
        stored == IF history.records.tag = "missing" THEN <<>> ELSE history.records.val
    IN  IF history.records.tag = "other"
        THEN [status |-> "AttributeError", file |-> file, count |-> 0]
        ELSE [status |-> "ok",
              file |-> Some([records |-> [tag |-> "list", val |-> <<record>> \o stored],
                             last_updated_utc |-> IsoZ(now)]),
              count |-> Len(stored) + 1]

\* append_history skipping a record that is already stored
AppendHistoryOnce(file, record, now) ==
    LET history == IF ~IsNone(file) THEN Val(file)
                   ELSE [records |-> [tag |-> "list", val |-> <<>>],
                         last_updated_utc |-> NoTimestamp]
        stored == IF history.records.tag = "missing" THEN <<>> ELSE history.records.val
        records == IF \E i \in 1..Len(stored) : stored[i] = record
                   THEN stored ELSE Append(stored, record)
    IN  IF history.records.tag = "other"
        THEN [status |-> "AttributeError", file |-> file, count |-> 0]
        ELSE [status |-> "ok",
              file |-> Some([records |-> [tag |-> "list", val |-> records],
                             last_updated_utc |-> IsoZ(now)]),
              count |-> Len(records)]

\* append_history (94-106): the call's outcome, the file afterwards and the
\* count returned.  history["records"].append raises AttributeError when the
\* stored member is not a list; nothing has been written by then.
AppendHistory(file, record, now) ==
    LET history == IF ~IsNone(file) THEN Val(file) ELSE HistoryDoc("list", <<>>, NoTimestamp)
        stored == IF history.records.tag = "missing" THEN <<>> ELSE history.records.val
    IN  IF history.records.tag = "other"
        THEN [status |-> "AttributeError", file |-> file, count |-> 0]
        ELSE LET records == Append(stored, record)
             IN  [status |-> "ok",
                  file |-> Some(HistoryDoc("list", records, IsoZ(now))),
                  count |-> Len(records)]

\* the relative error reported as 0 for a theoretical value of 0
RelativeErrorZeroForZero(latest) ==
    LET estimate == latest.quantum_estimate
        theoretical == latest.theoretical
    IN  IF ~IsNone(estimate) /\ ~IsNone(theoretical)
        THEN IF Val(theoretical) = 0 THEN Some(0)
             ELSE Some((Abs(Val(estimate) - Val(theoretical)) * 100 * PercentUnit)
                       \div Abs(Val(theoretical)))
        ELSE None

\* main (126-130)
RelativeErrorPercent(latest) ==
    LET estimate == latest.quantum_estimate
        theoretical == latest.theoretical
    IN  IF ~IsNone(estimate) /\ ~IsNone(theoretical) /\ Val(theoretical) # 0
        THEN Some((Abs(Val(estimate) - Val(theoretical)) * 100 * PercentUnit)
                  \div Abs(Val(theoretical)))
        ELSE None

\* main (132-136)
CalibrationEntry(latest, now) ==
    [recorded_utc |-> IsoZ(now),
     source |-> latest.source,
     timestamp |-> latest.timestamp,
     phase_bits |-> latest.phase_bits,
     repetitions |-> latest.repetitions,
     runs |-> latest.runs,
     quantum_estimate |-> latest.quantum_estimate,
     std_error |-> latest.std_error,
     theoretical |-> latest.theoretical,
     mean_difference |-> latest.mean_difference,
     relative_error_percent |-> RelativeErrorPercent(latest)]

\* main (119-141): load_latest raising ends main before append_history
MainOutcome(ensemble, single, history, now1, now2) ==
    LET latest == LoadLatest(ensemble, single)
    IN  IF latest.status # "ok"
        THEN [status |-> latest.status, file |-> history, count |-> 0]
        ELSE AppendHistory(history, CalibrationEntry(Val(latest.value), now1), now2)

----------------------------------------------------------------------------
(* The analyzer and the calibration update, one invocation after another *)

\* The amplitude estimate a run prints (0.10); runs differ in their
\* timestamps and in whether an estimate was parsed at all
Amplitudes == {10 * 1000}

\* What one external run may end in: the process fails, or its output is
\* parsed with or without an amplitude estimate
RunOutcomes ==
    {[status |-> "failed", fields |-> ParsedFields(None, None, None, None, None, None)]}
    \cup {[status |-> "parsed",
           fields |-> ParsedFields(est, Some(3 * 1000), Some(11 * 1000), None,
                                   Some(6), Some(120))] :
            est \in {None} \cup {Some(a) : a \in Amplitudes}}

NoCall == [call |-> "none", status |-> "ok", value |-> None]
IdleLocals == [runs |-> 0, idx |-> 0, results |-> <<>>]

Init ==
    /\ clock = 1
    /\ estimateFile = None
    /\ ensembleFile = None
    /\ runFiles = [i \in 1..MaxRuns |-> None]
    /\ historyFile = None
    /\ latest_quantum_result = None
    /\ pc = "idle"
    /\ caller = "none"
    /\ ens = IdleLocals
    /\ returned = NoCall
    /\ started = <<>>
    /\ finished = <<>>
    /\ atCall = None
    /\ lastProducer = "none"
    /\ appendLog = <<>>
    /\ arg = None

\* run_quantum_estimation is entered (analyze.py:100-110)
EnterEstimation(who) ==
    /\ pc' = "est"
    /\ caller' = who
    /\ latest_quantum_result' = None

\* A single run is requested (analyze.py main, run_quantum_estimation)
InvokeSingle ==
    /\ pc = "idle"
    /\ EnterEstimation("single")
    /\ UNCHANGED <<clock, estimateFile, ensembleFile, runFiles, historyFile, ens,
                   returned, started, finished, atCall, lastProducer, appendLog, arg>>

\* run_quantum_ensemble(runs) is called (analyze.py:445-452)
EnsembleCall ==
    /\ pc = "idle"
    /\ \E runs \in 0..MaxRuns :
        /\ started' = <<>>
        /\ finished' = <<>>
        /\ IF runs <= 0
           THEN /\ returned' = [call |-> "ensemble", status |-> "ok", value |-> None]
                /\ UNCHANGED <<pc, ens, atCall>>
           ELSE /\ ens' = [runs |-> runs, idx |-> 0, results |-> <<>>]
                /\ pc' = "loop"
                /\ atCall' = Some([ensembleFile |-> ensembleFile, runFiles |-> runFiles])
                /\ UNCHANGED returned
    /\ UNCHANGED <<clock, estimateFile, ensembleFile, runFiles, historyFile,
                   latest_quantum_result, caller, lastProducer, appendLog, arg>>

\* the loop going on after a failed run instead of leaving
AfterRunContinue(result) == "loop"

\* the loop's control after a run returned `result` (analyze.py:456-458)
AfterRun(result) == IF IsNone(result) THEN "finish" ELSE "loop"

\* the per-run document written before the None check
RunFilesAlways(files, idx, result) ==
    [files EXCEPT ![idx] = IF IsNone(result) THEN Some(None) ELSE result]

\* the per-run documents after run idx returned `result` (analyze.py:456-463):
\* quantum_estimate_run{idx}.json is written only past the None check
RunFilesAfter(files, idx, result) ==
    IF IsNone(result) THEN files ELSE [files EXCEPT ![idx] = result]

\* for idx in range(runs): the next run is started (analyze.py:453-455)
EnsembleIterate ==
    /\ pc = "loop"
    /\ ens.idx < ens.runs
    /\ EnterEstimation("ensemble")
    /\ started' = Append(started, ens.idx + 1)
    /\ UNCHANGED <<clock, estimateFile, ensembleFile, runFiles, historyFile, ens,
                   returned, finished, atCall, lastProducer, appendLog, arg>>

\* run_quantum_estimation returns with one of `outcomes`
\* (analyze.py:272-341), and its caller goes on:
\* the ensemble loop appends the result and writes the per-run document
\* (analyze.py:456-464)
EstimationReturnOf(outcomes) ==
    /\ pc = "est"
    /\ \E outcome \in outcomes, now \in clock..MaxClock :
        LET produced == EstimationProduces(outcome)
            payload == ResultPayload(outcome.fields, now)
            result == IF produced THEN Some(payload) ELSE None
        IN  /\ clock' = IF produced THEN now ELSE clock
            /\ estimateFile' = IF produced THEN result ELSE estimateFile
            /\ latest_quantum_result' = result
            /\ IF caller = "single"
               THEN /\ pc' = "idle"
                    /\ returned' = [call |-> "single", status |-> "ok", value |-> result]
                    /\ lastProducer' = IF produced THEN "single" ELSE lastProducer
                    /\ UNCHANGED <<ens, runFiles, finished>>
               ELSE /\ finished' = Append(finished, result)
                    /\ pc' = AfterRun(result)
                    /\ runFiles' = RunFilesAfter(runFiles, ens.idx + 1, result)
                    /\ IF produced
                       THEN ens' = [ens EXCEPT !.results = Append(@, payload),
                                               !.idx = @ + 1]
                       ELSE UNCHANGED ens
                    /\ UNCHANGED <<returned, lastProducer>>
    /\ caller' = "none"
    /\ UNCHANGED <<ensembleFile, historyFile, started, atCall, appendLog, arg>>

\* the same for the outcomes the model's runs may end in
EstimationReturn == EstimationReturnOf(RunOutcomes)

\* the loop is over: nothing to aggregate, or the summary is composed and
\* written (analyze.py:466-476)
EnsembleFinish ==
    /\ pc = "finish" \/ (pc = "loop" /\ ens.idx >= ens.runs)
    /\ pc' = "idle"
    /\ ens' = IdleLocals
    /\ IF ens.results = <<>>
       THEN /\ returned' = [call |-> "ensemble", status |-> "ok", value |-> None]
            /\ UNCHANGED <<clock, ensembleFile, latest_quantum_result, lastProducer>>
       ELSE \E now \in clock..MaxClock :
            LET ensemble_payload == ComposeEnsemblePayload(ens.results, ens.runs, now)
            IN  /\ clock' = now
                /\ ensembleFile' = Some(ensemble_payload)
                /\ latest_quantum_result' = Some(ensemble_payload)
                /\ returned' = [call |-> "ensemble", status |-> "ok",
                                value |-> Some(ensemble_payload)]
                /\ lastProducer' = "ensemble"
    /\ started' = <<>>
    /\ finished' = <<>>
    /\ atCall' = None
    /\ UNCHANGED <<estimateFile, runFiles, historyFile, caller, appendLog, arg>>

\* update_calibration_history.py main (119-141)
UpdateCalibration ==
    /\ pc = "idle"
    /\ IF IsNone(historyFile) THEN TRUE
       ELSE Len(Val(historyFile).records.val) < MaxRecords
    /\ \E now1 \in clock..MaxClock :
       \E now2 \in now1..MaxClock :
        LET done == MainOutcome(ensembleFile, estimateFile, historyFile, now1, now2)
        IN  /\ historyFile' = done.file
            /\ returned' = [call |-> "main", status |-> done.status,
                            value |-> IF done.status = "ok" THEN Some(done.count) ELSE None]
            /\ clock' = IF done.status = "ok" THEN now2 ELSE clock
    /\ UNCHANGED <<estimateFile, ensembleFile, runFiles, latest_quantum_result, pc,
                   caller, ens, started, finished, atCall, lastProducer, appendLog,
                   arg>>

Next ==
    \/ InvokeSingle
    \/ EnsembleCall
    \/ EnsembleIterate
    \/ EstimationReturn
    \/ EnsembleFinish

Spec == Init /\ [][Next]_vars

----------------------------------------------------------------------------
(* The calibration update run against documents found on disk *)

\* timestamps a document on disk may carry
Timestamps ==
    {NoTimestamp, BadTimestamp}
    \cup {[kind |-> k, t |-> t] : k \in {"aware", "naive"}, t \in 1..MaxClock}

DocInstance == [parameters |-> [phase_bits |-> Some(6), repetitions |-> Some(120)]]

\* quantum_estimate.json documents (estimate 0.21, analytic 0.19, as in
\* test_update_calibration_history.py:26-36), each value also missing and
\* the analytic probability also 0
SingleDocs ==
    {[timestamp |-> ts,
      instance |-> DocInstance,
      metrics |-> [phase_bits |-> Some(6), repetitions |-> Some(120),
                   quantum_estimate |-> est,
                   quantum_std_error |-> Some(3100),
                   analytic_probability |-> ana]] :
        ts \in Timestamps,
        est \in {None, Some(21 * 1000)},
        ana \in {None, Some(0), Some(19 * 1000)}}

\* quantum_estimate_ensemble.json documents (test_update_calibration_history.py:11-25)
EnsembleDocs ==
    {[timestamp |-> ts,
      instance |-> DocInstance,
      metrics |-> [ensemble_runs |-> Some(3),
                   quantum_estimate |-> Some(20 * 1000),
                   ensemble_std_error |-> Some(3 * 1000),
                   mean_difference |-> Some(1000)],
      ensemble |-> [runs |-> <<[metrics |-> [analytic_probability |-> Some(19 * 1000)]]>>]] :
        ts \in Timestamps}

\* an entry recorded by an earlier update
OldEntry ==
    CalibrationEntry(LoadEnsembleRecord(CHOOSE d \in EnsembleDocs : d.timestamp = IsoZ(1)), 1)

InitCalibration ==
    /\ clock = 1
    /\ estimateFile \in {None} \cup {Some(d) : d \in SingleDocs}
    /\ ensembleFile \in {None} \cup {Some(d) : d \in EnsembleDocs}
    /\ runFiles = [i \in 1..MaxRuns |-> None]
    /\ historyFile \in {None, Some(HistoryDoc("list", <<OldEntry>>, IsoZ(1)))}
    /\ latest_quantum_result = None
    /\ pc = "idle"
    /\ caller = "none"
    /\ ens = IdleLocals
    /\ returned = NoCall
    /\ started = <<>>
    /\ finished = <<>>
    /\ atCall = None
    /\ lastProducer = "none"
    /\ appendLog = <<>>
    /\ arg = None

NextCalibration == UpdateCalibration

SpecCalibration == InitCalibration /\ [][NextCalibration]_vars

----------------------------------------------------------------------------
(* append_history called directly, one call after another *)

\* records handed to append_history (test_update_calibration_history.py:52-53)
Entries ==
    {[recorded_utc |-> IsoZ(1), quantum_estimate |-> Some(20 * 1000)],
     [recorded_utc |-> IsoZ(2), quantum_estimate |-> Some(21 * 1000)]}

\* lists of at most n entries
RECURSIVE EntryLists(_)
EntryLists(n) ==
    IF n = 0 THEN {<<>>}
    ELSE EntryLists(n - 1)
         \cup {Append(l, e) : l \in {m \in EntryLists(n - 1) : Len(m) = n - 1}, e \in Entries}

\* history documents found on disk: with a record list, without the
\* "records" member, or with a member that is not a list
HistoryDocs ==
    {HistoryDoc("list", l, ts) : l \in EntryLists(MaxRecords - 1), ts \in {NoTimestamp, IsoZ(1)}}
    \cup {HistoryDoc(tag, <<>>, ts) : tag \in {"missing", "other"}, ts \in {NoTimestamp, IsoZ(1)}}

\* arg keeps the history file as it was found
InitHistory ==
    /\ clock = 1
    /\ estimateFile = None
    /\ ensembleFile = None
    /\ runFiles = [i \in 1..MaxRuns |-> None]
    /\ historyFile \in {None} \cup {Some(d) : d \in HistoryDocs}
    /\ latest_quantum_result = None
    /\ pc = "idle"
    /\ caller = "none"
    /\ ens = IdleLocals
    /\ returned = NoCall
    /\ started = <<>>
    /\ finished = <<>>
    /\ atCall = None
    /\ lastProducer = "none"
    /\ appendLog = <<>>
    /\ arg = historyFile

\* append_history(history_path, record) is called and returns or raises
AppendCall ==
    /\ Len(appendLog) < MaxRecords
    /\ \E record \in Entries, now \in clock..MaxClock :
        LET done == AppendHistory(historyFile, record, now)
        IN  /\ historyFile' = done.file
            /\ clock' = IF done.status = "ok" THEN now ELSE clock
            /\ returned' = [call |-> "append_history", status |-> done.status,
                            value |-> IF done.status = "ok" THEN Some(done.count) ELSE None]
            /\ appendLog' = Append(appendLog,
                                   [record |-> record, status |-> done.status,
                                    count |-> done.count, stamp |-> IsoZ(now)])
    /\ UNCHANGED <<estimateFile, ensembleFile, runFiles, latest_quantum_result, pc,
                   caller, ens, started, finished, atCall, lastProducer, arg>>

NextHistory == AppendCall

SpecHistory == InitHistory /\ [][NextHistory]_vars

----------------------------------------------------------------------------
(* _compose_ensemble_payload applied to a list of run records *)

\* amplitude estimates of a run record: absent, 0.10, 0.11 or 0.12
RecordAmplitudes == {None, Some(10 * 1000), Some(11 * 1000), Some(12 * 1000)}

RunRecord(est) ==
    ResultPayload(ParsedFields(est, Some(3 * 1000), Some(11 * 1000), None,
                               Some(6), Some(120)), 1)

\* the non-empty lists of at most n run records
RECURSIVE RecordLists(_)
RecordLists(n) ==
    IF n = 1 THEN {<<RunRecord(est)>> : est \in RecordAmplitudes}
    ELSE RecordLists(n - 1)
         \cup {Append(l, RunRecord(est)) :
                  l \in {m \in RecordLists(n - 1) : Len(m) = n - 1},
                  est \in RecordAmplitudes}

InitCompose ==
    /\ clock = 1
    /\ estimateFile = None
    /\ ensembleFile = None
    /\ runFiles = [i \in 1..MaxRuns |-> None]
    /\ historyFile = None
    /\ latest_quantum_result = None
    /\ pc = "idle"
    /\ caller = "none"
    /\ ens = IdleLocals
    /\ returned = NoCall
    /\ started = <<>>
    /\ finished = <<>>
    /\ atCall = None
    /\ lastProducer = "none"
    /\ appendLog = <<>>
    /\ arg \in {Some(l) : l \in RecordLists(MaxResults)}

\* _compose_ensemble_payload(results, runs_requested) is called
ComposeCall ==
    /\ returned.call = "none"
    /\ \E now \in clock..MaxClock :
        /\ clock' = now
        /\ returned' = [call |-> "compose", status |-> "ok",
                        value |-> Some(ComposeEnsemblePayload(Val(arg), Len(Val(arg)), now))]
    /\ UNCHANGED <<estimateFile, ensembleFile, runFiles, historyFile,
                   latest_quantum_result, pc, caller, ens, started, finished, atCall,
                   lastProducer, appendLog, arg>>

NextCompose == ComposeCall

SpecCompose == InitCompose /\ [][NextCompose]_vars

----------------------------------------------------------------------------
(* Properties of the analyzer (Spec) *)

\* what load_latest answers for the documents now on disk
Selected == LoadLatest(ensembleFile, estimateFile)

\* C6 (as stated): once invocations have produced an artifact, load_latest
\* selects the artifact of the most recent producing invocation, under a clock
\* that never goes back.
C6_SelectsLastProducer ==
    (pc = "idle" /\ lastProducer # "none")
        => /\ Selected.status = "ok"
           /\ Val(Selected.value).source = lastProducer

\* the single-run document carries the same timestamp as the ensemble summary
TimestampTie ==
    /\ ~IsNone(ensembleFile)
    /\ ~IsNone(estimateFile)
    /\ Val(ensembleFile).timestamp = Val(estimateFile).timestamp

\* C6 (amended): load_latest selects the artifact of the most recent producing
\* invocation, except that a single run stamped with the same time as the
\* ensemble summary on disk loses the tie: then the ensemble candidate is
\* selected.  The selected candidate carries the timestamp of its document.
C6_SelectsLastProducerUnlessTie ==
    (pc = "idle" /\ lastProducer # "none")
        => /\ Selected.status = "ok"
           /\ Val(Selected.value).source =
                 (IF lastProducer = "single" /\ TimestampTie THEN "ensemble"
                  ELSE lastProducer)
           /\ Val(Selected.value).timestamp =
                 (IF Val(Selected.value).source = "single"
                  THEN Val(estimateFile).timestamp
                  ELSE Val(ensembleFile).timestamp)

\* C6 witness: a single run made after an ensemble is the one selected
C6_Witness ==
    /\ pc = "idle"
    /\ lastProducer = "single"
    /\ ~IsNone(ensembleFile)
    /\ Selected.status = "ok"
    /\ Val(Selected.value).source = "single"

\* C7: the ensemble's runs are started one at a time with indices 1, 2, ...,
\* each only after the one before returned a result; nothing is started after
\* a run returned None and no index is started twice; the collected results
\* are the results of the runs before the first failure, in order.
C7_SequentialFailFast ==
    /\ \A i \in 1..Len(started) : started[i] = i
    /\ Len(finished) <= Len(started)
    /\ Len(started) <= Len(finished) + 1
    /\ \A i \in 2..Len(started) : ~IsNone(finished[i - 1])
    /\ Len(ens.results) <= Len(finished)
    /\ \A i \in 1..Len(ens.results) : finished[i] = Some(ens.results[i])
    /\ Len(finished) > Len(ens.results)
          => /\ Len(finished) = Len(ens.results) + 1
             /\ IsNone(finished[Len(finished)])
             /\ pc = "finish"

\* C7 witness: the first of several requested runs failed and the loop is left
C7_Witness ==
    /\ pc = "finish"
    /\ ens.runs > 1
    /\ started = <<1>>
    /\ finished = <<None>>

\* C8: an ensemble call in which no run completed (the first run failed, or
\* the call was refused for a run count that is not positive) returns None,
\* and the ensemble summary and the per-run documents are what they were when
\* the call was made.
C8_ZeroRunsWriteNothing ==
    [][/\ (pc \in {"loop", "finish"} /\ pc' = "idle" /\ ens.results = <<>>)
            => /\ returned' = [call |-> "ensemble", status |-> "ok", value |-> None]
               /\ ensembleFile' = Val(atCall).ensembleFile
               /\ runFiles' = Val(atCall).runFiles
       /\ (EnsembleCall /\ pc' = "idle")
            => /\ returned' = [call |-> "ensemble", status |-> "ok", value |-> None]
               /\ ensembleFile' = ensembleFile
               /\ runFiles' = runFiles]_vars

\* C8 witness: an ensemble call returned None while a summary is on disk
C8_Witness ==
    /\ pc = "idle"
    /\ returned.call = "ensemble"
    /\ IsNone(returned.value)
    /\ ~IsNone(ensembleFile)
    /\ lastProducer = "ensemble"
    /\ IsNone(latest_quantum_result)

\* C9: an ensemble summary, when written, lists the runs of this call with
\* indices 1..k in execution order, k = ensemble_runs, 1 <= k <= runs_requested,
\* and runs_requested is the count the call was given.
C9_EnsembleRecordRuns ==
    [][(pc \in {"loop", "finish"} /\ pc' = "idle" /\ ens.results # <<>>)
          => LET doc == Val(ensembleFile')
                 listed == doc.ensemble.runs
                 k == Val(doc.metrics.ensemble_runs)
             IN  /\ ~IsNone(ensembleFile')
                 /\ returned'.value = ensembleFile'
                 /\ Len(listed) = k
                 /\ 1 <= k
                 /\ k <= Val(doc.metrics.runs_requested)
                 /\ Val(doc.metrics.runs_requested) = ens.runs
                 /\ \A i \in 1..k :
                       /\ listed[i].index = i
                       /\ listed[i].timestamp = Val(finished[i]).timestamp
                       /\ listed[i].metrics = Val(finished[i]).metrics]_vars

\* C9 witness: a summary of fewer runs than were requested
C9_Witness ==
    /\ ~IsNone(ensembleFile)
    /\ Val(Val(ensembleFile).metrics.ensemble_runs) = 1
    /\ Val(Val(ensembleFile).metrics.runs_requested) = 2
    /\ Val(ensembleFile).ensemble.runs[1].index = 1

----------------------------------------------------------------------------
(* Properties of the calibration update (SpecCalibration) *)

Parseable(ts) == ts.kind \in {"aware", "naive"}

BothOnDisk == ~IsNone(estimateFile) /\ ~IsNone(ensembleFile)
SingleStamp == Val(estimateFile).timestamp
EnsembleStamp == Val(ensembleFile).timestamp

\* the entry the update has just appended
LastEntry ==
    LET records == Val(historyFile).records.val IN records[Len(records)]

\* what the single-source path makes of the document on disk
SingleDifference ==
    LET m == Val(estimateFile).metrics
    IN  IF ~IsNone(m.quantum_estimate) /\ ~IsNone(m.analytic_probability)
        THEN Some(Val(m.quantum_estimate) - Val(m.analytic_probability))
        ELSE None

\* C3: with both documents on disk and both timestamps parseable, the update
\* records the candidate with the later timestamp; when that is the single
\* run, the entry has source "single", runs 1 and mean_difference =
\* quantum_estimate - analytic_probability.
C3_LaterCandidateSelected ==
    (returned.call = "main" /\ BothOnDisk
        /\ Parseable(SingleStamp) /\ Parseable(EnsembleStamp))
        => /\ SingleStamp.t > EnsembleStamp.t
                => /\ returned.status = "ok"
                   /\ LastEntry.source = "single"
                   /\ LastEntry.timestamp = SingleStamp
                   /\ LastEntry.runs = 1
                   /\ LastEntry.mean_difference = SingleDifference
           /\ EnsembleStamp.t > SingleStamp.t
                => /\ returned.status = "ok"
                   /\ LastEntry.source = "ensemble"
                   /\ LastEntry.timestamp = EnsembleStamp

\* C4: with both documents on disk, one timestamp missing or unparsable and
\* the other parseable (with or without "Z"), load_latest does not fail and
\* the parseable candidate is the one recorded.
C4_UnparsableLoses ==
    (returned.call = "main" /\ BothOnDisk)
        => /\ (Parseable(SingleStamp) /\ ~Parseable(EnsembleStamp))
                => /\ returned.status = "ok"
                   /\ LastEntry.source = "single"
           /\ (Parseable(EnsembleStamp) /\ ~Parseable(SingleStamp))
                => /\ returned.status = "ok"
                   /\ LastEntry.source = "ensemble"

\* C5: with neither document on disk the update ends in FileNotFoundError and
\* the history file is left as it was: not created, not modified.
C5_NothingToAppend ==
    [][(IsNone(estimateFile) /\ IsNone(ensembleFile) /\ returned'.call = "main")
          => /\ returned'.status = "FileNotFoundError"
             /\ historyFile' = historyFile]_vars

\* C5 witness: the update failed for lack of documents, both with no history
\* file and with an existing one
C5_Witness ==
    /\ returned.call = "main"
    /\ returned.status = "FileNotFoundError"
    /\ IsNone(estimateFile)
    /\ IsNone(ensembleFile)
    /\ historyFile = Some(HistoryDoc("list", <<OldEntry>>, IsoZ(1)))

----------------------------------------------------------------------------
(* Properties of append_history (SpecHistory) *)

\* C1: starting from no history file, after n calls with entries e1..en the
\* document's records are <<e1, ..., en>>, the i-th call returned i, and
\* last_updated_utc is the stamp written by the n-th call.
C1_AppendsInCallOrder ==
    (IsNone(arg) /\ appendLog # <<>>)
        => LET n == Len(appendLog)
               doc == Val(historyFile)
           IN  /\ ~IsNone(historyFile)
               /\ doc.records.tag = "list"
               /\ doc.records.val = [i \in 1..n |-> appendLog[i].record]
               /\ \A i \in 1..n : /\ appendLog[i].status = "ok"
                                  /\ appendLog[i].count = i
               /\ returned.value = Some(n)
               /\ doc.last_updated_utc = appendLog[n].stamp

\* C1 witness: two different entries were appended to a fresh history, the
\* second at a later time than the first
C1_Witness ==
    /\ IsNone(arg)
    /\ Len(appendLog) = 2
    /\ appendLog[1].record # appendLog[2].record
    /\ appendLog[1].stamp # appendLog[2].stamp
    /\ returned.value = Some(2)

\* the records a history file holds (none when the member is missing)
StoredRecords(file) ==
    IF IsNone(file) \/ Val(file).records.tag # "list" THEN <<>> ELSE Val(file).records.val

\* C2: a successful append to an existing history document keeps the stored
\* records as a prefix, in order, and adds exactly the new record at the end,
\* also when an equal record is already stored.
C2_AppendOnly ==
    [][(~IsNone(historyFile) /\ appendLog' # appendLog /\ returned'.status = "ok")
          => LET old == StoredRecords(historyFile)
                 new == StoredRecords(historyFile')
             IN  /\ Val(historyFile').records.tag = "list"
                 /\ Len(new) = Len(old) + 1
                 /\ SubSeq(new, 1, Len(old)) = old
                 /\ new[Len(new)] = appendLog'[Len(appendLog')].record
                 /\ returned'.value = Some(Len(new))]_vars

\* C2 witness: a record equal to the one already stored was appended to a
\* document found on disk
C2_Witness ==
    /\ ~IsNone(arg)
    /\ Len(appendLog) = 1
    /\ returned.status = "ok"
    /\ Len(StoredRecords(historyFile)) = 2
    /\ StoredRecords(historyFile)[1] = StoredRecords(historyFile)[2]

----------------------------------------------------------------------------
(* Properties of _compose_ensemble_payload (SpecCompose) *)

\* the amplitude of run i of the list, 0 where it is absent
AmplitudeAt(i) ==
    LET est == Val(arg)[i].metrics.quantum_estimate
    IN  IF IsNone(est) THEN 0 ELSE Val(est)
HasAmplitude(i) == ~IsNone(Val(arg)[i].metrics.quantum_estimate)

\* n: the runs with an amplitude; their sum; n^3 times their population variance
SampleSize == Cardinality({i \in 1..Len(Val(arg)) : HasAmplitude(i)})
SampleSum == SumSeq([i \in 1..Len(Val(arg)) |-> AmplitudeAt(i)])
ScaledSquares ==
    SumSeq([i \in 1..Len(Val(arg)) |->
              IF HasAmplitude(i)
              THEN (SampleSize * AmplitudeAt(i) - SampleSum)
                   * (SampleSize * AmplitudeAt(i) - SampleSum)
              ELSE 0])

\* C10: the payload reports the arithmetic mean, the population standard
\* deviation and std / sqrt(n) of the amplitudes that are present, n counting
\* only those; all three are None when no amplitude is present; each value is
\* given to the model's resolution (1e-5, the standard error within 2e-5).
\* [0.10, 0.12, 0.11] gives 0.11, 0.00816 and 0.00471.
C10_EnsembleStatistics ==
    returned.call = "compose"
        => LET m == Val(returned.value).metrics
               n == SampleSize
               mean == Val(m.quantum_estimate)
               std == Val(m.ensemble_std_deviation)
               err == Val(m.ensemble_std_error)
           IN  /\ n = 0 => /\ IsNone(m.quantum_estimate)
                           /\ IsNone(m.ensemble_std_deviation)
                           /\ IsNone(m.ensemble_std_error)
               /\ n > 0 => /\ ~IsNone(m.quantum_estimate)
                           /\ ~IsNone(m.ensemble_std_deviation)
                           /\ ~IsNone(m.ensemble_std_error)
                           /\ n * mean <= SampleSum
                           /\ SampleSum < n * (mean + 1)
                           /\ n * n * n * std * std <= ScaledSquares
                           /\ ScaledSquares < n * n * n * (std + 1) * (std + 1)
                           /\ err >= 1 => n * n * n * n * (err - 1) * (err - 1) <= ScaledSquares
                           /\ ScaledSquares < n * n * n * n * (err + 2) * (err + 2)
               /\ Val(arg) = <<RunRecord(Some(10 * 1000)), RunRecord(Some(12 * 1000)),
                               RunRecord(Some(11 * 1000))>>
                     => /\ mean = 11 * 1000
                        /\ std = 816
                        /\ err = 471

\* C10 witness: a list in which one run lacks the amplitude and the others
\* differ has been aggregated
C10_Witness ==
    /\ returned.call = "compose"
    /\ Len(Val(arg)) = 3
    /\ SampleSize = 2
    /\ Val(Val(returned.value).metrics.ensemble_std_deviation) > 0

----------------------------------------------------------------------------
(* analyze.py: to_float, the conversion of a captured numeral *)

\* longest numeral the model hands to to_float
MaxNumeralLen == 4

\* A captured value is a string, here the sequence of its characters.  The
\* characters number_pattern admits (analyze.py:195) that the model uses:
\* digits, the comma, the dot and the minus sign
NumeralChars == {"0", "1", ",", ".", "-"}

DigitChars == <<"0", "1", "2", "3", "4", "5", "6", "7", "8", "9">>
IsDigit(c) == \E i \in DOMAIN DigitChars : DigitChars[i] = c
DigitValue(c) == (CHOOSE i \in DOMAIN DigitChars : DigitChars[i] = c) - 1

\* the strings of 1..n characters
RECURSIVE StringsUpTo(_)
StringsUpTo(n) ==
    IF n = 0 THEN {}
    ELSE {<<c>> : c \in NumeralChars}
         \cup StringsUpTo(n - 1)
         \cup {Append(s, c) : s \in {t \in StringsUpTo(n - 1) : Len(t) = n - 1},
                              c \in NumeralChars}

\* `ch in s`
Contains(s, ch) == \E i \in DOMAIN s : s[i] = ch

\* s.replace(old, new) for single characters; new = "" removes
StrReplace(s, old, new) ==
    IF new = "" THEN SelectSeq(s, LAMBDA c : c # old)
    ELSE [i \in DOMAIN s |-> IF s[i] = old THEN new ELSE s[i]]

\* the digits of a numeral part as numbers
Digits(s) == [i \in DOMAIN s |-> DigitValue(s[i])]

RECURSIVE StripLeadingZeros(_)
StripLeadingZeros(ds) ==
    IF ds # <<>> /\ Head(ds) = 0 THEN StripLeadingZeros(Tail(ds)) ELSE ds

RECURSIVE StripTrailingZeros(_)
StripTrailingZeros(ds) ==
    IF ds # <<>> /\ ds[Len(ds)] = 0
    THEN StripTrailingZeros(SubSeq(ds, 1, Len(ds) - 1))
    ELSE ds

\* The number a decimal numeral denotes: sign, integer digits without leading
\* zeros, fraction digits without trailing zeros.  Zero carries no sign
\* (-0.0 == 0.0).
Decimal(neg, int, frac) ==
    LET i == StripLeadingZeros(int)
        f == StripTrailingZeros(frac)
    IN  [neg |-> neg /\ (i # <<>> \/ f # <<>>), int |-> i, frac |-> f]

\* float(s) for a string of digits, dots and signs: an optional sign, then
\* digits with at most one dot and at least one digit; anything else raises
\* ValueError
PyFloat(s) ==
    LET signed == s # <<>> /\ s[1] \in {"-", "+"}
        body == IF signed THEN Tail(s) ELSE s
        dots == {i \in DOMAIN body : body[i] = "."}
        wellFormed ==
            /\ \A i \in DOMAIN body : IsDigit(body[i]) \/ body[i] = "."
            /\ Cardinality(dots) <= 1
            /\ \E i \in DOMAIN body : IsDigit(body[i])
        dot == IF dots = {} THEN Len(body) + 1 ELSE CHOOSE i \in dots : TRUE
    IN  IF ~wellFormed THEN Raised("ValueError")
        ELSE Ok(Decimal(signed /\ s[1] = "-",
                        Digits(SubSeq(body, 1, dot - 1)),
                        Digits(SubSeq(body, dot + 1, Len(body)))))

\* to_float reading every comma as a decimal point, whether or not a dot is
\* present
ToFloatCommasAsPoints(value) ==
    IF IsNone(value) THEN None
    ELSE LET parsed == PyFloat(StrReplace(Val(value), ",", "."))
         IN  IF parsed.status = "ok" THEN parsed.value ELSE None

\* to_float (analyze.py:214-226); the captured text has no surrounding blanks
ToFloat(value) ==
    IF IsNone(value) THEN None
    ELSE LET raw == Val(value)
             normalized ==
                 IF Contains(raw, ",") /\ ~Contains(raw, ".")
                 THEN StrReplace(raw, ",", ".")
                 ELSE IF Contains(raw, ",") /\ Contains(raw, ".")
                 THEN StrReplace(raw, ",", "")
                 ELSE raw
             parsed == PyFloat(normalized)
         IN  IF parsed.status = "ok" THEN parsed.value ELSE None

\* digits read as a natural number
RECURSIVE NatOf(_)
NatOf(ds) == IF ds = <<>> THEN 0 ELSE 10 * NatOf(SubSeq(ds, 1, Len(ds) - 1)) + ds[Len(ds)]

\* 10^n
RECURSIVE Pow10(_)
Pow10(n) == IF n = 0 THEN 1 ELSE 10 * Pow10(n - 1)

\* number of decimal places Unit keeps
RECURSIVE PlacesOf(_)
PlacesOf(u) == IF u <= 1 THEN 0 ELSE 1 + PlacesOf(u \div 10)

\* the float as the model stores it: value * Unit, places beyond Unit dropped
ToFixed(d) ==
    LET places == PlacesOf(Unit)
        kept == SubSeq(d.frac, 1, IF Len(d.frac) < places THEN Len(d.frac) ELSE places)
        magnitude == NatOf(d.int) * Unit + NatOf(kept) * Pow10(places - Len(kept))
    IN  IF d.neg THEN -magnitude ELSE magnitude

\* a captured numeral as a stored float, None when it does not convert
FloatOf(value) ==
    LET d == ToFloat(value) IN IF IsNone(d) THEN None ELSE Some(ToFixed(Val(d)))

----------------------------------------------------------------------------
(* analyze.py: run_quantum_estimation, from the console output to the fields *)

\* The console output, as the lines the patterns of analyze.py:189-212 look
\* for.  A label the output does not carry is None.  A histogram line is
\* [outcome, denominator, count]; a "value +/- error" line is
\* [first, sep, second] with the separator as printed.
EmptyText ==
    [histogram |-> <<>>,
     config |-> None,                \* "phase bits=X, repeats=Y"
     precision |-> None,             \* "Precision qubits: X"
     repetitions |-> None,           \* "Repetitions: Y"
     threshold |-> None,             \* "Loss threshold: v"
     loss_qubits |-> None,           \* "Loss distribution qubits: n"
     total_qubits |-> None,          \* "Total qubits: n"
     quantum_canonical |-> None,     \* "Quantum amplitude estimation ...: a sep b"
     quantum_mean |-> None,          \* "Mean amplitude estimate: a sep b"
     analytic_canonical |-> None,    \* "Analytical probability: v"
     analytic_theoretical |-> None,  \* "Theoretical tail probability: v"
     classical_canonical |-> None,   \* "Classical Monte Carlo estimate: a sep b"
     classical_samples |-> None,     \* "Monte Carlo (N samples): a sep b"
     difference |-> None]            \* "Difference between quantum and analytical: v"

\* The separators a "value sep error" line may be printed with, named by
\* their code points: the plus-minus sign, its once and twice mis-decoded
\* forms, the form without the low quotation mark, and the ASCII spelling
PlusMinusSign == "U+00B1"
MisdecodedOnce == "U+00C2 U+00B1"
MisdecodedTwice == "U+00C3 U+201A U+00C2 U+00B1"
MisdecodedBare == "U+00C3 U+00C2 U+00B1"
AsciiPlusMinus == "+/-"

\* stdout_clean (analyze.py:181) rewrites the twice mis-decoded separator
StdoutClean(sep) == IF sep = MisdecodedTwice THEN MisdecodedOnce ELSE sep

\* plus_minus_pattern (analyze.py:202): U+00C3, an optional U+201A, then
\* U+00C2 U+00B1; or "+/-"
PlusMinusMatch(sep) == sep \in {MisdecodedBare, MisdecodedTwice, AsciiPlusMinus}

\* re.search for a "value sep error" pattern over the cleaned output
PairMatch(line) ==
    IF IsNone(line) THEN None
    ELSE IF PlusMinusMatch(StdoutClean(Val(line).sep)) THEN line
    ELSE None

\* the later pattern preferred to the earlier one
OrElseLast(first, second) == IF IsNone(second) THEN first ELSE second

\* "if m is None: m = re.search(<next pattern>)"
OrElse(first, second) == IF IsNone(first) THEN second ELSE first

\* match.group(i) if match else None
Group(match, field) == IF IsNone(match) THEN None ELSE Some(Val(match)[field])

\* histogram_counts (analyze.py:187-193): a later line for the same outcome
\* replaces the count
HistogramCounts(lines) ==
    [k \in {lines[i].outcome : i \in DOMAIN lines} |->
        LET last == CHOOSE i \in DOMAIN lines :
                        /\ lines[i].outcome = k
                        /\ \A j \in DOMAIN lines : lines[j].outcome = k => j <= i
        IN  lines[last].count]

\* histogram_denominator: that of the last histogram line
HistogramDenominator(lines) ==
    IF lines = <<>> THEN None ELSE Some(lines[Len(lines)].denominator)

\* 1 << n
RECURSIVE Pow2(_)
Pow2(n) == IF n = 0 THEN 1 ELSE 2 * Pow2(n - 1)

\* int(round(math.log2(d))) for d > 0: the b with 2^(2b-1) < d^2 < 2^(2b+1)
RECURSIVE RoundLog2From(_, _)
RoundLog2From(d, b) == IF d * d < Pow2(2 * b + 1) THEN b ELSE RoundLog2From(d, b + 1)
RoundLog2(d) == RoundLog2From(d, 0)

\* the histogram's denominator preferred to the labels
PhaseBitsHistogramFirst(text) ==
    LET denominator == HistogramDenominator(text.histogram)
        labelled == OrElse(Group(text.config, "phase_bits"), text.precision)
    IN  IF ~IsNone(denominator) /\ Val(denominator) > 0
        THEN Some(RoundLog2(Val(denominator)))
        ELSE labelled

\* phase_bits (analyze.py:234-241)
PhaseBits(text) ==
    LET denominator == HistogramDenominator(text.histogram)
        labelled == OrElse(Group(text.config, "phase_bits"), text.precision)
    IN  IF ~IsNone(labelled) THEN labelled
        ELSE IF ~IsNone(denominator) /\ Val(denominator) > 0
        THEN Some(RoundLog2(Val(denominator)))
        ELSE None

\* repeats (analyze.py:235-239)
Repeats(text) == OrElse(Group(text.config, "repeats"), text.repetitions)

\* the values the patterns and to_float extract (analyze.py:187-248)
Extract(text) ==
    LET quantum_match == OrElse(PairMatch(text.quantum_canonical), PairMatch(text.quantum_mean))
        analytic_match == OrElse(text.analytic_canonical, text.analytic_theoretical)
        classical_match == OrElse(PairMatch(text.classical_canonical),
                                  PairMatch(text.classical_samples))
        quantum_estimate == FloatOf(Group(quantum_match, "first"))
        analytic_prob == FloatOf(analytic_match)
        reported == FloatOf(text.difference)
    IN  [histogram_counts |-> HistogramCounts(text.histogram),
         histogram_denominator |-> HistogramDenominator(text.histogram),
         quantum_estimate |-> quantum_estimate,
         quantum_std |-> FloatOf(Group(quantum_match, "second")),
         analytic_prob |-> analytic_prob,
         classical_prob |-> FloatOf(Group(classical_match, "first")),
         classical_std |-> FloatOf(Group(classical_match, "second")),
         difference |->
             IF IsNone(reported) /\ ~IsNone(quantum_estimate) /\ ~IsNone(analytic_prob)
             THEN Some(Val(quantum_estimate) - Val(analytic_prob))
             ELSE reported,
         phase_bits |-> PhaseBits(text),
         repeats |-> Repeats(text),
         shots |-> Repeats(text),
         threshold |-> FloatOf(text.threshold),
         loss_qubits |-> text.loss_qubits]

----------------------------------------------------------------------------
(* analyze.py: the circular analysis of the phase histogram (250-270) *)

\* resolution of cos and sin: 1e-4
TrigUnit == 100 * 100

\* 1e-12 at the resolution of TrigUnit
MagnitudeFloor == (TrigUnit \div (1000 * 1000)) \div (1000 * 1000)

\* division that rounds towards zero, as symmetric in sign as the floats are
Quot(a, b) == IF a < 0 THEN -((-a) \div b) ELSE a \div b

Complex(re, im) == [re |-> re, im |-> im]

\* abs(z)
Magnitude(z) == ISqrt(z.re * z.re + z.im * z.im)

\* z / abs(z), for z # 0
Normalize(z) ==
    LET n == Magnitude(z)
    IN  Complex(Quot(z.re * TrigUnit, n), Quot(z.im * TrigUnit, n))

\* complex(cos(angle), sin(angle)) for angle = 2 pi k / denom, 0 <= k < denom,
\* denom a power of two: the quarter turns are exact, an angle between two
\* of the next coarser grid is the direction of their bisector
RECURSIVE Turn(_, _)
Turn(k, denom) ==
    IF k = 0 THEN Complex(TrigUnit, 0)
    ELSE IF k % 2 = 0 THEN Turn(k \div 2, denom \div 2)
    ELSE IF denom = 2 THEN Complex(-TrigUnit, 0)
    ELSE IF denom = 4 THEN Complex(0, IF k = 1 THEN TrigUnit ELSE -TrigUnit)
    ELSE LET before == Turn(k - 1, denom)
             after == Turn((k + 1) % denom, denom)
         IN  Normalize(Complex(before.re + after.re, before.im + after.im))

\* complex(math.cos(angle), math.sin(angle)), angle = 2 pi folded / denom;
\* folded may be negative or beyond denom
CosSin(folded, denom) == Turn(folded % denom, denom)

\* the outcome taken as it is
FoldedOutcomeUnfolded(outcome, denom) == outcome

\* folded_outcome (analyze.py:258)
FoldedOutcome(outcome, denom) ==
    IF outcome <= denom - outcome THEN outcome ELSE denom - outcome

\* sum(histogram_counts.values())
RECURSIVE TotalCounts(_)
TotalCounts(counts) ==
    IF DOMAIN counts = {} THEN 0
    ELSE LET k == CHOOSE x \in DOMAIN counts : TRUE
         IN  counts[k] + TotalCounts([x \in DOMAIN counts \ {k} |-> counts[x]])

\* complex_sum (analyze.py:256-260)
RECURSIVE ComplexSum(_, _)
ComplexSum(counts, denom) ==
    IF DOMAIN counts = {} THEN Complex(0, 0)
    ELSE LET k == CHOOSE x \in DOMAIN counts : TRUE
             unit == CosSin(FoldedOutcome(k, denom), denom)
             rest == ComplexSum([x \in DOMAIN counts \ {k} |-> counts[x]], denom)
         IN  Complex(counts[k] * unit.re + rest.re, counts[k] * unit.im + rest.im)

\* complex_mean (analyze.py:261)
ComplexMean(counts, denom) ==
    LET sum == ComplexSum(counts, denom)
        total == TotalCounts(counts)
    IN  Complex(Quot(sum.re, total), Quot(sum.im, total))

\* a.re * b.im - a.im * b.re: positive when b is counter-clockwise of a
Cross(a, b) == a.re * b.im - a.im * b.re

\* atan2(z.im, z.re) / (2 pi) for z.im >= 0, z # 0: the fraction of a turn,
\* in Unit, found by bisecting the quarter that holds z; lo and hi are the
\* fractions of the directions a and b
RECURSIVE Bisect(_, _, _, _, _)
Bisect(z, a, b, lo, hi) ==
    IF Cross(a, z) = 0 THEN lo
    ELSE IF Cross(b, z) = 0 THEN hi
    ELSE IF hi - lo <= 1 THEN lo
    ELSE LET m == Normalize(Complex(a.re + b.re, a.im + b.im))
             mid == (lo + hi) \div 2
         IN  IF Cross(m, z) >= 0 THEN Bisect(z, m, b, mid, hi)
             ELSE Bisect(z, a, m, lo, mid)

UpperFraction(z) ==
    IF z.re >= 0
    THEN Bisect(z, Complex(TrigUnit, 0), Complex(0, TrigUnit), 0, Unit \div 4)
    ELSE Bisect(z, Complex(0, TrigUnit), Complex(-TrigUnit, 0), Unit \div 4, Unit \div 2)

\* normalized_phase (analyze.py:263-266): atan2, a negative angle raised by
\* a full turn, as a fraction of the turn
NormalizedPhase(z) ==
    IF z.im >= 0 THEN UpperFraction(z)
    ELSE Unit - UpperFraction(Complex(z.re, -z.im))

\* folded_phase (analyze.py:267)
FoldedPhase(z) ==
    LET normalized_phase == NormalizedPhase(z)
    IN  IF normalized_phase <= Unit - normalized_phase THEN normalized_phase
        ELSE Unit - normalized_phase

\* math.sin(math.pi * folded_phase) ** 2 (analyze.py:268-269).  2 pi
\* folded_phase is the angle of z reflected into the upper half plane, so
\* the square of the sine of its half is (1 - cos) / 2 with cos = z.re / abs(z)
SinSquared(z) ==
    LET n == Magnitude(z)
    IN  (((n - z.re) * TrigUnit) \div (2 * n)) * (Unit \div TrigUnit)

NoCircular == [circular_amplitude |-> None, circular_phase |-> None]

\* the analysis answering for a vanishing mean as well
CircularStatsAnyMagnitude(histogram_counts, phase_bits) ==
    IF DOMAIN histogram_counts = {} \/ IsNone(phase_bits) THEN NoCircular
    ELSE IF TotalCounts(histogram_counts) <= 0 THEN NoCircular
    ELSE LET complex_mean == ComplexMean(histogram_counts, Pow2(Val(phase_bits)))
         IN  IF Magnitude(complex_mean) > MagnitudeFloor
             THEN [circular_amplitude |-> Some(SinSquared(complex_mean)),
                   circular_phase |-> Some(FoldedPhase(complex_mean))]
             ELSE [circular_amplitude |-> Some(0), circular_phase |-> Some(0)]

\* circular_amplitude and circular_phase (analyze.py:250-270)
CircularStats(histogram_counts, phase_bits) ==
    IF DOMAIN histogram_counts = {} \/ IsNone(phase_bits) THEN NoCircular
    ELSE IF TotalCounts(histogram_counts) <= 0 THEN NoCircular
    ELSE LET complex_mean == ComplexMean(histogram_counts, Pow2(Val(phase_bits)))
         IN  IF Magnitude(complex_mean) > MagnitudeFloor
             THEN [circular_amplitude |-> Some(SinSquared(complex_mean)),
                   circular_phase |-> Some(FoldedPhase(complex_mean))]
             ELSE NoCircular

----------------------------------------------------------------------------
(* analyze.py: run_quantum_estimation, the result record (272-328) *)

\* DEFAULT_QAE_PARAMS (analyze.py:24-32), floats in Unit
DEFAULT_QAE_PARAMS ==
    [loss_qubits |-> 4,
     threshold |-> 25 * (Unit \div 10),
     mean |-> 0,
     std_dev |-> Unit,
     precision_bits |-> 6,
     repetitions |-> 120,
     run_sanity_check |-> FALSE]

\* effective_params (analyze.py:108-110): the defaults updated with the
\* caller's qae_params, a possibly partial dict or None
EffectiveParams(qae_params) ==
    IF IsNone(qae_params) THEN DEFAULT_QAE_PARAMS
    ELSE LET given == Val(qae_params)
         IN  [key \in DOMAIN DEFAULT_QAE_PARAMS \cup DOMAIN given |->
                 IF key \in DOMAIN given THEN given[key] ELSE DEFAULT_QAE_PARAMS[key]]

\* a metric that is a number, or the string "N/A" in its place
Number(v) == [kind |-> "number", value |-> Some(v)]
NotAvailable == [kind |-> "N/A", value |-> None]
OrNotAvailable(x) == IF IsNone(x) THEN NotAvailable ELSE Number(Val(x))

\* the derived total without the marker qubit
TotalQubitsNoMarker(reported, phase_bits, loss_qubits) ==
    IF ~IsNone(reported) THEN reported
    ELSE IF ~IsNone(phase_bits) /\ ~IsNone(loss_qubits)
    THEN Some(Val(loss_qubits) + Val(phase_bits))
    ELSE None

\* total_qubits (analyze.py:274-277)
TotalQubits(reported, phase_bits, loss_qubits) ==
    IF ~IsNone(reported) THEN reported
    ELSE IF ~IsNone(phase_bits) /\ ~IsNone(loss_qubits)
    THEN Some(Val(loss_qubits) + Val(phase_bits) + 1)
    ELSE None

\* the cost proxy without its floor of 1
TCountNoFloor(phase_bits, repeats) ==
    IF ~IsNone(phase_bits) /\ ~IsNone(repeats)
    THEN Some(Val(phase_bits) * Val(repeats) * 4)
    ELSE None

\* t_count (analyze.py:281-283)
TCount(phase_bits, repeats) ==
    IF ~IsNone(phase_bits) /\ ~IsNone(repeats)
    THEN LET product == Val(phase_bits) * Val(repeats) * 4
         IN  Some(IF product > 1 THEN product ELSE 1)
    ELSE None

\* estimator_target (analyze.py:288)
EstimatorTarget(threshold) ==
    IF ~IsNone(threshold) THEN [text |-> "TailRisk > {threshold}", threshold |-> threshold]
    ELSE [text |-> "TailRisk", threshold |-> None]

\* result_payload (analyze.py:285-321) from the extracted values e; a text
\* without histogram lines leaves the histogram_counts key out
EstimationPayload(e, text, qae_params, now) ==
    LET effective_params == EffectiveParams(qae_params)
        circular == CircularStats(e.histogram_counts, e.phase_bits)
        logical_qubits == TotalQubits(text.total_qubits, e.phase_bits, e.loss_qubits)
    IN  [timestamp |-> IsoZ(now),
         algorithm |-> "QPEAmplitudeEstimation",
         estimator_target |-> EstimatorTarget(e.threshold),
         instance |->
             [parameters |->
                 [shots |-> e.shots,
                  phase_bits |-> e.phase_bits,
                  repetitions |-> e.repeats,
                  threshold |-> e.threshold,
                  loss_qubits |-> e.loss_qubits,
                  mean |-> effective_params.mean,
                  std_dev |-> effective_params.std_dev,
                  run_sanity_check |-> effective_params.run_sanity_check]],
         metrics |->
             [logical_qubits |-> OrNotAvailable(logical_qubits),
              physical_qubits |-> OrNotAvailable(logical_qubits),
              t_count |-> OrNotAvailable(TCount(e.phase_bits, e.repeats)),
              runtime_days |-> 0,
              phase_bits |-> e.phase_bits,
              repetitions |-> e.repeats,
              quantum_estimate |-> e.quantum_estimate,
              quantum_std_error |-> e.quantum_std,
              analytic_probability |-> e.analytic_prob,
              classical_estimate |-> e.classical_prob,
              classical_std_error |-> e.classical_std,
              difference |-> e.difference,
              circular_phase |-> circular.circular_phase,
              circular_amplitude |-> circular.circular_amplitude],
         raw_output |-> text,
         histogram_counts |->
             IF DOMAIN e.histogram_counts # {} THEN Some(e.histogram_counts) ELSE None]

\* the record of a console output (analyze.py:187-321): the values are
\* extracted once and the payload is built from them
EstimationRecord(text, qae_params, now) ==
    CHOOSE payload \in {EstimationPayload(e, text, qae_params, now) : e \in {Extract(text)}} :
        TRUE

\* the record written although no amplitude estimate was parsed
EstimationResultAlways(process, text, qae_params, now) ==
    IF process # "ok" THEN None ELSE Some(EstimationRecord(text, qae_params, now))

\* What run_quantum_estimation returns (analyze.py:132-134, 272-341).
\* `process` is how the external commands ended: "ok", or the exception that
\* is caught, or "no directory" when the Q# directory is missing
EstimationResult(process, text, qae_params, now) ==
    IF process # "ok" THEN None
    ELSE IF IsNone(Extract(text).quantum_estimate) THEN None
    ELSE Some(EstimationRecord(text, qae_params, now))

\* run_quantum_estimation(qae_params=...) run to its end on the console
\* output the process printed (analyze.py:100-341): the record is written to
\* quantum_estimate.json and kept in latest_quantum_result, or nothing is
\* written and latest_quantum_result is None
RunQuantumEstimation ==
    /\ returned.call = "none"
    /\ ~IsNone(arg)
    /\ \E now \in clock..MaxClock :
       \E result \in {EstimationResult(Val(arg).process, Val(arg).text,
                                       Val(arg).qae_params, now)} :
            /\ clock' = now
            /\ estimateFile' = IF IsNone(result) THEN estimateFile ELSE result
            /\ latest_quantum_result' = result
            /\ returned' = [call |-> "run_quantum_estimation", status |-> "ok",
                            value |-> result]
    /\ UNCHANGED <<ensembleFile, runFiles, historyFile, pc, caller, ens, started,
                   finished, atCall, lastProducer, appendLog, arg>>

----------------------------------------------------------------------------
(* json.dump of a result record and json.load of the written text
   (analyze.py:323-325, 76-78) *)

\* repr of a non-negative int: its decimal digits
RECURSIVE NatRepr(_)
NatRepr(n) ==
    IF n < 10 THEN <<DigitChars[n + 1]>>
    ELSE Append(NatRepr(n \div 10), DigitChars[(n % 10) + 1])

\* repr of an int
IntRepr(n) == IF n < 0 THEN <<"-">> \o NatRepr(-n) ELSE NatRepr(n)

\* the digits of n in exactly `places` places
RECURSIVE Padded(_, _)
Padded(n, places) ==
    IF places = 0 THEN <<>>
    ELSE Append(Padded(n \div 10, places - 1), DigitChars[(n % 10) + 1])

RECURSIVE StripZeroChars(_)
StripZeroChars(s) ==
    IF Len(s) > 1 /\ s[Len(s)] = "0" THEN StripZeroChars(SubSeq(s, 1, Len(s) - 1)) ELSE s

\* repr of a float: the shortest decimal that reads back as the same float,
\* always with a decimal point ("0.18333", "2.5", "0.0")
FloatRepr(x) ==
    LET size == IF x < 0 THEN -x ELSE x
    IN  (IF x < 0 THEN <<"-">> ELSE <<>>)
        \o NatRepr(size \div Unit) \o <<".">>
        \o StripZeroChars(Padded(size % Unit, PlacesOf(Unit)))

\* JSON values as written: a number by its text, null, a string
JsonNumber(text) == [json |-> "number", text |-> text]
JsonNull == [json |-> "null", text |-> <<>>]
JsonString(s) == [json |-> "string", text |-> <<s>>]

\* json.dump of an optional float, an optional int, an int or "N/A"
DumpFloat(value) == IF IsNone(value) THEN JsonNull ELSE JsonNumber(FloatRepr(Val(value)))
DumpInt(value) == IF IsNone(value) THEN JsonNull ELSE JsonNumber(IntRepr(Val(value)))
DumpMarked(value) ==
    IF value.kind = "N/A" THEN JsonString("N/A") ELSE JsonNumber(IntRepr(Val(value.value)))

\* The key of a Python dict entry: an int or a str, written here by its
\* text; 32 and "32" are different keys
PyKey(type, text) == [type |-> type, text |-> text]

\* a dict with int keys as the set of its items
Items(counts) ==
    {[key |-> PyKey("int", IntRepr(k)), value |-> counts[k]] : k \in DOMAIN counts}

\* json.dump of a dict: every key is written as a string, str(key) for an
\* int key
DumpObject(items) ==
    {[key |-> item.key.text, value |-> JsonNumber(IntRepr(item.value))] : item \in items}

\* json.dump(result_payload): the numbers of the document
JsonDump(record) ==
    [parameters |->
        [shots |-> DumpInt(record.instance.parameters.shots),
         phase_bits |-> DumpInt(record.instance.parameters.phase_bits),
         repetitions |-> DumpInt(record.instance.parameters.repetitions),
         threshold |-> DumpFloat(record.instance.parameters.threshold),
         loss_qubits |-> DumpInt(record.instance.parameters.loss_qubits),
         mean |-> DumpFloat(Some(record.instance.parameters.mean)),
         std_dev |-> DumpFloat(Some(record.instance.parameters.std_dev))],
     metrics |->
        [logical_qubits |-> DumpMarked(record.metrics.logical_qubits),
         physical_qubits |-> DumpMarked(record.metrics.physical_qubits),
         t_count |-> DumpMarked(record.metrics.t_count),
         runtime_days |-> DumpInt(Some(record.metrics.runtime_days)),
         phase_bits |-> DumpInt(record.metrics.phase_bits),
         repetitions |-> DumpInt(record.metrics.repetitions),
         quantum_estimate |-> DumpFloat(record.metrics.quantum_estimate),
         quantum_std_error |-> DumpFloat(record.metrics.quantum_std_error),
         analytic_probability |-> DumpFloat(record.metrics.analytic_probability),
         classical_estimate |-> DumpFloat(record.metrics.classical_estimate),
         classical_std_error |-> DumpFloat(record.metrics.classical_std_error),
         difference |-> DumpFloat(record.metrics.difference),
         circular_phase |-> DumpFloat(record.metrics.circular_phase),
         circular_amplitude |-> DumpFloat(record.metrics.circular_amplitude)],
     histogram_counts |->
        IF IsNone(record.histogram_counts) THEN None
        ELSE Some(DumpObject(Items(Val(record.histogram_counts))))]

\* int(text) of a JSON number without a fraction
ParseInt(text) ==
    IF text[1] = "-" THEN -NatOf(Digits(Tail(text))) ELSE NatOf(Digits(text))

\* json.load of a number: a float when the text has a decimal point, else
\* an int
LoadNumber(json) ==
    IF Contains(json.text, ".") THEN ToFixed(Val(PyFloat(json.text).value))
    ELSE ParseInt(json.text)

LoadOptional(json) == IF json.json = "null" THEN None ELSE Some(LoadNumber(json))
LoadMarked(json) ==
    IF json.json = "string" THEN [kind |-> json.text[1], value |-> None]
    ELSE Number(LoadNumber(json))

\* json.load of an object: the keys are the strings that were written
LoadObject(members) ==
    {[key |-> PyKey("str", member.key), value |-> LoadNumber(member.value)] :
        member \in members}

\* json.load of the written document: the numbers read back
JsonLoad(document) ==
    [parameters |-> [name \in DOMAIN document.parameters |->
                        LoadOptional(document.parameters[name])],
     metrics |->
        [name \in DOMAIN document.metrics |->
            IF name \in {"logical_qubits", "physical_qubits", "t_count"}
            THEN LoadMarked(document.metrics[name])
            ELSE LoadOptional(document.metrics[name])],
     histogram_counts |->
        IF IsNone(document.histogram_counts) THEN None
        ELSE Some(LoadObject(Val(document.histogram_counts)))]

\* the numbers of the record in memory, its histogram as dict items
Numbers(record) ==
    [parameters |->
        [shots |-> record.instance.parameters.shots,
         phase_bits |-> record.instance.parameters.phase_bits,
         repetitions |-> record.instance.parameters.repetitions,
         threshold |-> record.instance.parameters.threshold,
         loss_qubits |-> record.instance.parameters.loss_qubits,
         mean |-> Some(record.instance.parameters.mean),
         std_dev |-> Some(record.instance.parameters.std_dev)],
     metrics |->
        [name \in DOMAIN record.metrics |->
            IF name \in {"logical_qubits", "physical_qubits", "t_count"}
            THEN record.metrics[name]
            ELSE IF name = "runtime_days" THEN Some(record.metrics[name])
            ELSE record.metrics[name]],
     histogram_counts |->
        IF IsNone(record.histogram_counts) THEN None
        ELSE Some(Items(Val(record.histogram_counts)))]

\* the record run_quantum_estimation wrote is read back from
\* quantum_estimate.json
ReadBack ==
    /\ returned.call = "none"
    /\ ~IsNone(arg)
    /\ returned' = [call |-> "json.load", status |-> "ok",
                    value |-> Some(JsonLoad(JsonDump(Val(arg))))]
    /\ UNCHANGED <<clock, estimateFile, ensembleFile, runFiles, historyFile,
                   latest_quantum_result, pc, caller, ens, started, finished, atCall,
                   lastProducer, appendLog, arg>>

----------------------------------------------------------------------------
(* Two invocations of append_history against one history file
   (update_calibration_history.py:94-106), each a process of its own *)

Invocations == {1, 2}

\* the write made from the file as it is on disk at the time of the write
ReadModifyWriteLocked(read, onDisk, record, now) == AppendHistory(onDisk, record, now)

\* What one invocation writes (100-105): the history it read, with the
\* record appended.  The file as it is on disk at the time of the write
\* plays no part.
ReadModifyWrite(read, onDisk, record, now) == AppendHistory(read, record, now)

\* pc, ens and arg are per invocation: the position, the history read, the
\* record to append; atCall keeps the file as it was found, started logs
\* each read with the number of writes made before it, finished the writers
InitConcurrent ==
    /\ clock = 1
    /\ estimateFile = None
    /\ ensembleFile = None
    /\ runFiles = [i \in 1..MaxRuns |-> None]
    /\ historyFile \in {None} \cup {Some(d) : d \in HistoryDocs}
    /\ latest_quantum_result = None
    /\ pc = [p \in Invocations |-> "start"]
    /\ caller = "none"
    /\ ens = [p \in Invocations |-> None]
    /\ returned = NoCall
    /\ started = <<>>
    /\ finished = <<>>
    /\ atCall = historyFile
    /\ lastProducer = "none"
    /\ appendLog = <<>>
    /\ arg \in [Invocations -> Entries]

\* append_history reads the file, or starts from no file (95-98)
ReadHistory(p) ==
    /\ pc[p] = "start"
    /\ pc' = [pc EXCEPT ![p] = "loaded"]
    /\ ens' = [ens EXCEPT ![p] = historyFile]
    /\ started' = Append(started, [invocation |-> p, writes |-> Len(finished)])
    /\ UNCHANGED <<clock, estimateFile, ensembleFile, runFiles, historyFile,
                   latest_quantum_result, caller, returned, finished, atCall,
                   lastProducer, appendLog, arg>>

\* append_history appends to what it read, stamps, writes the whole file and
\* returns the count (100-106); a records member that is no list raises
\* before anything is written
WriteHistory(p) ==
    /\ pc[p] = "loaded"
    /\ \E now \in clock..MaxClock :
        LET done == ReadModifyWrite(ens[p], historyFile, arg[p], now)
        IN  /\ historyFile' = IF done.status = "ok" THEN done.file ELSE historyFile
            /\ clock' = IF done.status = "ok" THEN now ELSE clock
            /\ returned' = [call |-> "append_history", status |-> done.status,
                            value |-> IF done.status = "ok" THEN Some(done.count) ELSE None]
            /\ appendLog' = Append(appendLog,
                                   [record |-> arg[p], status |-> done.status,
                                    count |-> done.count, stamp |-> IsoZ(now)])
    /\ pc' = [pc EXCEPT ![p] = "done"]
    /\ finished' = Append(finished, p)
    /\ UNCHANGED <<estimateFile, ensembleFile, runFiles, latest_quantum_result,
                   caller, ens, started, atCall, lastProducer, arg>>

NextConcurrent ==
    \/ \E p \in Invocations : ReadHistory(p)
    \/ \E p \in Invocations : WriteHistory(p)

SpecConcurrent == InitConcurrent /\ [][NextConcurrent]_vars

----------------------------------------------------------------------------
(* src/tooling/azq/job_manager.py: wait_for_completion and run_job_complete.
   Time is counted in sleeps of the polling loop (30 s); clock is the
   reading of time.time(). *)

\* largest timeout_seconds, in sleeps
MaxTimeout == 3

\* time.sleep(30), and what an Azure CLI call may take
Sleep == 1
Latencies == {0, 1}

JobId == "job-1"

\* the status member as the service may spell it
StatusTexts == {"Succeeded", "FAILED", "cancelled", "Waiting", "executing", "Paused"}

\* str.lower() on those spellings
Lower(s) ==
    CASE s = "Succeeded" -> "succeeded"
      [] s = "FAILED" -> "failed"
      [] s = "Waiting" -> "waiting"
      [] s = "Paused" -> "paused"
      [] OTHER -> s

\* What get_job_status returns (116-140): None when the CLI call fails or
\* times out, else the job's JSON, with or without a status member
StatusReplies ==
    {None, Some([id |-> JobId])}
    \cup {Some([id |-> JobId, status |-> s]) : s \in StatusTexts}

\* status.get("status", "").lower()
JobStatusOf(status) == Lower(IF "status" \in DOMAIN status THEN status.status ELSE "")

FinalStatuses == {"succeeded", "failed", "cancelled"}

\* the loop going on after a status query that failed
PollOutcomeRetry(reply) ==
    IF IsNone(reply) THEN "sleep"
    ELSE IF JobStatusOf(Val(reply)) \in FinalStatuses THEN "return status"
    ELSE "sleep"

\* one iteration of the loop of wait_for_completion after its status query
\* (156-171)
PollOutcome(reply) ==
    IF IsNone(reply) THEN "return None"
    ELSE IF JobStatusOf(Val(reply)) \in FinalStatuses THEN "return status"
    ELSE "sleep"

\* what get_job_output returns (176-215)
OutputReplies == {None, Some([histogram |-> "results"])}

\* the locals: job_id, start_time and timeout_seconds of the wait, and
\* final_status once wait_for_completion has returned to run_job_complete
JobLocals(job_id, start_time, timeout_seconds, final_status) ==
    [job_id |-> job_id, start_time |-> start_time,
     timeout_seconds |-> timeout_seconds, final_status |-> final_status]

\* A call of wait_for_completion or of main's "run" command; started logs
\* the CLI commands issued, finished the replies to the status queries
InitJob ==
    /\ clock = 0
    /\ estimateFile = None
    /\ ensembleFile = None
    /\ runFiles = [i \in 1..MaxRuns |-> None]
    /\ historyFile = None
    /\ latest_quantum_result = None
    /\ pc = "idle"
    /\ caller = "none"
    /\ ens = JobLocals(None, 0, 0, None)
    /\ returned = NoCall
    /\ started = <<>>
    /\ finished = <<>>
    /\ atCall = None
    /\ lastProducer = "none"
    /\ appendLog = <<>>
    /\ arg \in [command : {"wait", "run"}, timeout_seconds : 0..MaxTimeout]

\* run_job_complete submits the job (241-249)
SubmitJob ==
    /\ pc = "idle"
    /\ arg.command = "run"
    /\ caller' = "run_job_complete"
    /\ started' = Append(started, "submit")
    /\ \E job_id \in {None, Some(JobId)}, latency \in Latencies :
        /\ clock' = clock + latency
        /\ IF IsNone(job_id)
           THEN /\ returned' = [call |-> "run_job_complete", status |-> "ok", value |-> None]
                /\ pc' = "returned"
                /\ ens' = ens
           ELSE /\ returned' = returned
                /\ pc' = "wait"
                /\ ens' = JobLocals(job_id, clock', arg.timeout_seconds, None)
    /\ UNCHANGED <<estimateFile, ensembleFile, runFiles, historyFile,
                   latest_quantum_result, finished, atCall, lastProducer, appendLog, arg>>

\* wait_for_completion is called on its own (153)
WaitCall ==
    /\ pc = "idle"
    /\ arg.command = "wait"
    /\ pc' = "wait"
    /\ ens' = JobLocals(Some(JobId), clock, arg.timeout_seconds, None)
    /\ UNCHANGED <<clock, estimateFile, ensembleFile, runFiles, historyFile,
                   latest_quantum_result, caller, returned, started, finished, atCall,
                   lastProducer, appendLog, arg>>

\* wait_for_completion returns value: to its caller, or into
\* run_job_complete (255-280), which returns None for no status, goes on to
\* the output for a job that succeeded, and returns the status otherwise
WaitReturn(value) ==
    IF caller # "run_job_complete"
    THEN /\ returned' = [call |-> "wait_for_completion", status |-> "ok", value |-> value]
         /\ pc' = "done"
         /\ ens' = [ens EXCEPT !.final_status = value]
    ELSE /\ ens' = [ens EXCEPT !.final_status = value]
         /\ IF IsNone(value)
            THEN /\ returned' = [call |-> "run_job_complete", status |-> "ok",
                                 value |-> None]
                 /\ pc' = "returned"
            ELSE IF JobStatusOf(Val(value)) = "succeeded"
            THEN /\ returned' = returned
                 /\ pc' = "retrieve"
            ELSE /\ returned' = [call |-> "run_job_complete", status |-> "ok",
                                 value |-> value]
                 /\ pc' = "returned"

\* one iteration of the loop (155-171): the status query and what follows
Poll ==
    /\ pc = "wait"
    /\ clock - ens.start_time < ens.timeout_seconds
    /\ \E reply \in StatusReplies, latency \in Latencies :
        /\ started' = Append(started, "show")
        /\ finished' = Append(finished, reply)
        /\ IF PollOutcome(reply) = "sleep"
           THEN /\ clock' = clock + latency + Sleep
                /\ UNCHANGED <<pc, ens, returned>>
           ELSE /\ clock' = clock + latency
                /\ WaitReturn(IF PollOutcome(reply) = "return status" THEN reply ELSE None)
    /\ UNCHANGED <<estimateFile, ensembleFile, runFiles, historyFile,
                   latest_quantum_result, caller, atCall, lastProducer, appendLog, arg>>

\* the loop condition fails (155, 173-174)
WaitTimeout ==
    /\ pc = "wait"
    /\ clock - ens.start_time >= ens.timeout_seconds
    /\ WaitReturn(None)
    /\ UNCHANGED <<clock, estimateFile, ensembleFile, runFiles, historyFile,
                   latest_quantum_result, caller, started, finished, atCall,
                   lastProducer, appendLog, arg>>

\* run_job_complete fetches the output and returns the combined record
\* (260-277)
GetJobOutput ==
    /\ pc = "retrieve"
    /\ started' = Append(started, "output")
    /\ \E results \in OutputReplies, latency \in Latencies :
        /\ clock' = clock + latency
        /\ returned' = [call |-> "run_job_complete", status |-> "ok",
                        value |-> Some([job_id |-> Val(ens.job_id),
                                        status |-> Val(ens.final_status),
                                        results |-> results,
                                        submission_time |-> IsoZ(clock')])]
    /\ pc' = "returned"
    /\ UNCHANGED <<estimateFile, ensembleFile, runFiles, historyFile,
                   latest_quantum_result, caller, ens, finished, atCall, lastProducer,
                   appendLog, arg>>

\* main, command "run" (369-370): "if result: print(result['job_id'])"
MainReport ==
    /\ pc = "returned"
    /\ pc' = "done"
    /\ returned' = [call |-> "main",
                    status |-> IF IsNone(returned.value) THEN "ok"
                               ELSE IF "job_id" \in DOMAIN Val(returned.value) THEN "ok"
                               ELSE "KeyError",
                    value |-> returned.value]
    /\ UNCHANGED <<clock, estimateFile, ensembleFile, runFiles, historyFile,
                   latest_quantum_result, caller, ens, started, finished, atCall,
                   lastProducer, appendLog, arg>>

NextJob ==
    \/ SubmitJob
    \/ WaitCall
    \/ Poll
    \/ WaitTimeout
    \/ GetJobOutput
    \/ MainReport

\* the process runs on as long as it has a step to take
SpecJob == InitJob /\ [][NextJob]_vars /\ WF_vars(NextJob)

----------------------------------------------------------------------------
(* run_quantum_estimation applied to console outputs *)

\* most histogram lines in a console output of the histogram specification
MaxLines == 2

\* the numerals of test_analyze_parser.py:23-48
TestAmplitude ==
    <<"0", ",", "1", "8", "3", "3", "3", "3", "3", "3", "3", "3",
      "3", "3", "3", "3", "3", "3", "2">>
TestStdError ==
    <<"0", ",", "0", "3", "5", "3", "2", "2", "5", "8", "7", "4",
      "6", "4", "4", "7", "0", "7", "3", "5">>
TestAnalytic ==
    <<"0", ",", "1", "8", "9", "7", "7", "3", "8", "1", "2", "0",
      "0", "8", "5", "6", "9", "3", "3">>
TestClassicalStd ==
    <<"0", ",", "0", "0", "3", "9", "2", "1", "2", "2", "0", "6",
      "2", "9", "9", "0", "9", "8", "4", "3", "5">>

HistogramLine(outcome, denominator, count) ==
    [outcome |-> outcome, denominator |-> denominator, count |-> count]

PairLine(first, sep, second) == [first |-> first, sep |-> sep, second |-> second]

\* the console output of test_analyze_parser.py:23-48, the separator of its
\* "value sep error" lines being sep
ConsoleText(sep) ==
    [EmptyText EXCEPT
        !.histogram = <<HistogramLine(0, 64, 98), HistogramLine(32, 64, 22)>>,
        !.precision = Some(6),
        !.repetitions = Some(120),
        !.threshold = Some(<<"2", ",", "5">>),
        !.loss_qubits = Some(4),
        !.total_qubits = Some(11),
        !.quantum_mean = Some(PairLine(TestAmplitude, sep, TestStdError)),
        !.analytic_theoretical = Some(TestAnalytic),
        !.classical_samples = Some(PairLine(TestAnalytic, sep, TestClassicalStd))]

\* as the test prints it, with the plus-minus sign
TestText == ConsoleText(PlusMinusSign)

\* the same output with the separator spelled "+/-"
AsciiText == ConsoleText(AsciiPlusMinus)

Separators ==
    {PlusMinusSign, MisdecodedOnce, MisdecodedTwice, MisdecodedBare, AsciiPlusMinus}

SeparatorTexts == {ConsoleText(sep) : sep \in Separators}

\* the output with one captured numeral replaced by an arbitrary string
NumeralTexts(length) ==
    LET strings == StringsUpTo(length)
    IN  {[AsciiText EXCEPT !.threshold = Some(s)] : s \in strings}
        \cup {[AsciiText EXCEPT
                  !.quantum_mean = Some(PairLine(s, AsciiPlusMinus, TestStdError))] :
                s \in strings}

\* outputs that carry or omit each label
LabelTexts ==
    {[EmptyText EXCEPT
         !.histogram = histogram,
         !.config = config,
         !.precision = precision,
         !.repetitions = repetitions,
         !.loss_qubits = loss_qubits,
         !.total_qubits = total_qubits,
         !.threshold = threshold,
         !.quantum_mean = quantum_mean] :
        histogram \in {<<>>, <<HistogramLine(0, 64, 98), HistogramLine(32, 64, 22)>>,
                       <<HistogramLine(1, 3, 5)>>},
        config \in {None, Some([phase_bits |-> 6, repeats |-> 120]),
                    Some([phase_bits |-> 3, repeats |-> 0])},
        precision \in {None, Some(6), Some(0)},
        repetitions \in {None, Some(120)},
        loss_qubits \in {None, Some(4)},
        total_qubits \in {None, Some(11)},
        threshold \in {None, Some(<<"2", ",", "5">>)},
        quantum_mean \in {None, Some(PairLine(TestAmplitude, AsciiPlusMinus, TestStdError))}}

\* what a caller passes as qae_params: nothing, or its own four values
CallerParams ==
    [precision_bits |-> 5, repetitions |-> 77, threshold |-> 3 * Unit, loss_qubits |-> 3]
ParamSets == {None, Some(CallerParams)}

\* how the external commands may end
Processes == {"ok", "CalledProcessError", "FileNotFoundError", "no directory"}

Invocation(process, text, qae_params) ==
    [process |-> process, text |-> text, qae_params |-> qae_params]

\* the output whose amplitude is printed as 1.0.1
MalformedText ==
    [AsciiText EXCEPT
        !.quantum_mean = Some(PairLine(<<"1", ".", "0", ".", "1">>, AsciiPlusMinus,
                                       TestStdError))]

ParseInputs ==
    {Invocation("ok", text, None) : text \in SeparatorTexts \cup {MalformedText}}
    \cup {Invocation(process, text, qae_params) :
            process \in Processes, text \in {TestText, AsciiText}, qae_params \in ParamSets}
    \cup {Invocation("ok", text, qae_params) : text \in LabelTexts, qae_params \in ParamSets}

\* the record of an earlier, successful run
OldRecord == EstimationRecord(AsciiText, None, 1)

\* one call of run_quantum_estimation, with or without the artifact of an
\* earlier run on disk and in latest_quantum_result
InitParse ==
    /\ clock = MaxClock
    /\ \E old \in {None, Some(OldRecord)} :
        /\ estimateFile = old
        /\ latest_quantum_result = old
    /\ ensembleFile = None
    /\ runFiles = [i \in 1..MaxRuns |-> None]
    /\ historyFile = None
    /\ pc = "idle"
    /\ caller = "none"
    /\ ens = IdleLocals
    /\ returned = NoCall
    /\ started = <<>>
    /\ finished = <<>>
    /\ atCall = None
    /\ lastProducer = "none"
    /\ appendLog = <<>>
    /\ arg \in {Some(input) : input \in ParseInputs}

NextParse == RunQuantumEstimation

SpecParse == InitParse /\ [][NextParse]_vars

----------------------------------------------------------------------------
(* run_quantum_estimation applied to outputs with arbitrary numerals *)

InitNumeral ==
    /\ clock = MaxClock
    /\ estimateFile = None
    /\ latest_quantum_result = None
    /\ ensembleFile = None
    /\ runFiles = [i \in 1..MaxRuns |-> None]
    /\ historyFile = None
    /\ pc = "idle"
    /\ caller = "none"
    /\ ens = IdleLocals
    /\ returned = NoCall
    /\ started = <<>>
    /\ finished = <<>>
    /\ atCall = None
    /\ lastProducer = "none"
    /\ appendLog = <<>>
    /\ arg \in {Some(Invocation("ok", text, None)) : text \in NumeralTexts(MaxNumeralLen)}

NextNumeral == RunQuantumEstimation

SpecNumeral == InitNumeral /\ [][NextNumeral]_vars

----------------------------------------------------------------------------
(* run_quantum_estimation applied to outputs with phase histograms *)

\* outcome indices, denominators and counts of the histogram lines
LineOutcomes == {0, 1, 3, 4, 9}
LineDenominators == {0, 4, 8}
LineCounts == {0, 1, 2}

\* the lists of 1..n histogram lines over one denominator
RECURSIVE LinesUpTo(_, _)
LinesUpTo(n, denominator) ==
    LET lines == {HistogramLine(k, denominator, c) : k \in LineOutcomes, c \in LineCounts}
    IN  IF n = 0 THEN {}
        ELSE {<<l>> : l \in lines}
             \cup LinesUpTo(n - 1, denominator)
             \cup {Append(h, l) :
                     h \in {g \in LinesUpTo(n - 1, denominator) : Len(g) = n - 1},
                     l \in lines}

\* outputs with an amplitude estimate, a histogram or none, and the phase
\* bits configured as 3 or not reported
HistogramTexts(n) ==
    {[EmptyText EXCEPT
         !.histogram = histogram,
         !.config = config,
         !.quantum_mean = Some(PairLine(TestAmplitude, AsciiPlusMinus, TestStdError))] :
        histogram \in {<<>>} \cup UNION {LinesUpTo(n, d) : d \in LineDenominators},
        config \in {None, Some([phase_bits |-> 3, repeats |-> 120])}}

InitHistogram ==
    /\ clock = MaxClock
    /\ estimateFile = None
    /\ latest_quantum_result = None
    /\ ensembleFile = None
    /\ runFiles = [i \in 1..MaxRuns |-> None]
    /\ historyFile = None
    /\ pc = "idle"
    /\ caller = "none"
    /\ ens = IdleLocals
    /\ returned = NoCall
    /\ started = <<>>
    /\ finished = <<>>
    /\ atCall = None
    /\ lastProducer = "none"
    /\ appendLog = <<>>
    /\ arg \in {Some(Invocation("ok", text, None)) : text \in HistogramTexts(MaxLines)}

NextHistogram == RunQuantumEstimation

SpecHistogram == InitHistogram /\ [][NextHistogram]_vars


----------------------------------------------------------------------------
(* a record written by run_quantum_estimation and read back *)

\* the records of the outputs with histograms and of the outputs that carry
\* or omit each label
WrittenRecords(n) ==
    {EstimationRecord(text, None, 1) :
        text \in {t \in HistogramTexts(n) \cup LabelTexts :
                    ~IsNone(Extract(t).quantum_estimate)}}

InitRoundTrip ==
    /\ clock = 1
    /\ estimateFile = None
    /\ latest_quantum_result = None
    /\ ensembleFile = None
    /\ runFiles = [i \in 1..MaxRuns |-> None]
    /\ historyFile = None
    /\ pc = "idle"
    /\ caller = "none"
    /\ ens = IdleLocals
    /\ returned = NoCall
    /\ started = <<>>
    /\ finished = <<>>
    /\ atCall = None
    /\ lastProducer = "none"
    /\ appendLog = <<>>
    /\ arg \in {Some(record) : record \in WrittenRecords(MaxLines)}

NextRoundTrip == ReadBack

SpecRoundTrip == InitRoundTrip /\ [][NextRoundTrip]_vars

----------------------------------------------------------------------------
(* run_quantum_estimation applied to outputs that carry a field twice *)

\* numerals of the canonical lines, different from those of the generic ones
CanonicalAmplitude == <<"0", ".", "3">>
CanonicalStdError == <<"0", ".", "0", "1">>
CanonicalAnalytic == <<"0", ".", "2">>
CanonicalClassical == <<"0", ".", "2", "5">>

\* outputs with the canonical line, the generic line, both or neither for the
\* amplitude estimate, the analytical probability and the classical
\* estimate; a canonical line may carry a separator its pattern does not
\* match, or a capture that matches and does not convert
OrderTexts ==
    {[EmptyText EXCEPT
         !.quantum_canonical = quantum_canonical,
         !.quantum_mean = quantum_mean,
         !.analytic_canonical = analytic_canonical,
         !.analytic_theoretical = analytic_theoretical,
         !.classical_canonical = classical_canonical,
         !.classical_samples = classical_samples] :
        quantum_canonical \in
            {None,
             Some(PairLine(CanonicalAmplitude, AsciiPlusMinus, CanonicalStdError)),
             Some(PairLine(CanonicalAmplitude, PlusMinusSign, CanonicalStdError)),
             Some(PairLine(<<".">>, AsciiPlusMinus, CanonicalStdError))},
        quantum_mean \in {None, Some(PairLine(TestAmplitude, AsciiPlusMinus, TestStdError))},
        analytic_canonical \in {None, Some(CanonicalAnalytic), Some(<<"-">>)},
        analytic_theoretical \in {None, Some(TestAnalytic)},
        classical_canonical \in
            {None,
             Some(PairLine(CanonicalClassical, AsciiPlusMinus, CanonicalStdError)),
             Some(PairLine(CanonicalClassical, PlusMinusSign, CanonicalStdError))},
        classical_samples \in
            {None, Some(PairLine(TestAnalytic, AsciiPlusMinus, TestClassicalStd))}}

\* outputs with an amplitude estimate and any of the three sources of the
\* phase-bit count, each giving a different value; denominators that are
\* not powers of two, and 0
PhaseTexts ==
    {[EmptyText EXCEPT
         !.histogram = histogram,
         !.config = config,
         !.precision = precision,
         !.quantum_mean = Some(PairLine(TestAmplitude, AsciiPlusMinus, TestStdError))] :
        histogram \in {<<>>,
                       <<HistogramLine(0, 64, 98), HistogramLine(32, 64, 22)>>,
                       <<HistogramLine(1, 3, 5)>>,
                       <<HistogramLine(1, 6, 5)>>,
                       <<HistogramLine(0, 1, 5)>>,
                       <<HistogramLine(1, 0, 2)>>},
        config \in {None, Some([phase_bits |-> 5, repeats |-> 120]),
                    Some([phase_bits |-> 0, repeats |-> 120])},
        precision \in {None, Some(4), Some(0)}}

InitOrder ==
    /\ clock = MaxClock
    /\ estimateFile = None
    /\ latest_quantum_result = None
    /\ ensembleFile = None
    /\ runFiles = [i \in 1..MaxRuns |-> None]
    /\ historyFile = None
    /\ pc = "idle"
    /\ caller = "none"
    /\ ens = IdleLocals
    /\ returned = NoCall
    /\ started = <<>>
    /\ finished = <<>>
    /\ atCall = None
    /\ lastProducer = "none"
    /\ appendLog = <<>>
    /\ arg \in {Some(Invocation("ok", text, qae_params)) :
                  text \in OrderTexts \cup PhaseTexts, qae_params \in ParamSets}

NextOrder == RunQuantumEstimation

SpecOrder == InitOrder /\ [][NextOrder]_vars

----------------------------------------------------------------------------
(* run_quantum_ensemble over runs that print different estimates *)

\* the estimates 0.10 and 0.12
VariedAmplitudes == {10 * 1000, 12 * 1000}

\* a run fails, or its output is parsed with one of the estimates or none
VariedOutcomes ==
    {[status |-> "failed", fields |-> ParsedFields(None, None, None, None, None, None)]}
    \cup {[status |-> "parsed",
           fields |-> ParsedFields(est, Some(3 * 1000), Some(11 * 1000), None,
                                   Some(6), Some(120))] :
            est \in {None} \cup {Some(a) : a \in VariedAmplitudes}}

\* a run of the ensemble returns
EnsembleRunReturn == EstimationReturnOf(VariedOutcomes)

NextEnsemble ==
    \/ EnsembleCall
    \/ EnsembleIterate
    \/ EnsembleRunReturn
    \/ EnsembleFinish

\* the analyzer as constructed, one reading of the clock before the last
InitEnsemble ==
    /\ clock = MaxClock - 1
    /\ estimateFile = None
    /\ ensembleFile = None
    /\ runFiles = [i \in 1..MaxRuns |-> None]
    /\ historyFile = None
    /\ latest_quantum_result = None
    /\ pc = "idle"
    /\ caller = "none"
    /\ ens = IdleLocals
    /\ returned = NoCall
    /\ started = <<>>
    /\ finished = <<>>
    /\ atCall = None
    /\ lastProducer = "none"
    /\ appendLog = <<>>
    /\ arg = None

SpecEnsemble == InitEnsemble /\ [][NextEnsemble]_vars

----------------------------------------------------------------------------
(* analyze.py: load_estimation_results over the estimates directory *)

\* A file name of the estimates directory: its stem without the number, and
\* the run number (0 where the name has none)
FileName(stem, number) == [stem |-> stem, number |-> number]

EstimateName == FileName("quantum_estimate", 0)
EnsembleName == FileName("quantum_estimate_ensemble", 0)
RunName(i) == FileName("quantum_estimate_run", i)
\* the default of --history-file (update_calibration_history.py:111-113)
HistoryName == FileName("quantum_calibration_history", 0)

\* estimates_dir.glob("quantum*.json") (analyze.py:75-79): every file that
\* exists and whose name starts with "quantum", loaded and given its
\* source_file
Globbed(estimate, ensemble, runs, history) ==
    {[source_file |-> EstimateName, document |-> Val(estimate)] : x \in {1} \cap
        (IF IsNone(estimate) THEN {} ELSE {1})}
    \cup {[source_file |-> EnsembleName, document |-> Val(ensemble)] : x \in {1} \cap
        (IF IsNone(ensemble) THEN {} ELSE {1})}
    \cup {[source_file |-> RunName(i), document |-> Val(runs[i])] :
            i \in {j \in DOMAIN runs : ~IsNone(runs[j])}}
    \cup {[source_file |-> HistoryName, document |-> Val(history)] : x \in {1} \cap
        (IF IsNone(history) THEN {} ELSE {1})}

\* str(result.get("timestamp", "")): the timestamps are ISO strings of one
\* format, ordered as their times; "" comes before each of them
TimestampKey(result) ==
    IF "timestamp" \in DOMAIN result.document THEN result.document.timestamp.t
    ELSE MinTime - 1

\* the order of the file names as strings
StemOrder(stem) ==
    CASE stem = "quantum_calibration_history" -> 0
      [] stem = "quantum_estimate" -> 1
      [] stem = "quantum_estimate_ensemble" -> 2
      [] stem = "quantum_estimate_run" -> 3

\* the sort key of analyze.py:85 compared: (timestamp, source_file)
KeyLess(a, b) ==
    \/ TimestampKey(a) < TimestampKey(b)
    \/ /\ TimestampKey(a) = TimestampKey(b)
       /\ \/ StemOrder(a.source_file.stem) < StemOrder(b.source_file.stem)
          \/ /\ a.source_file.stem = b.source_file.stem
             /\ a.source_file.number < b.source_file.number

\* results.sort(key=...)
RECURSIVE SortResults(_)
SortResults(results) ==
    IF results = {} THEN <<>>
    ELSE LET first == CHOOSE r \in results : \A o \in results \ {r} : KeyLess(r, o)
         IN  <<first>> \o SortResults(results \ {first})

\* load_estimation_results (analyze.py:70-87)
LoadEstimationResults(estimate, ensemble, runs, history) ==
    SortResults(Globbed(estimate, ensemble, runs, history))

\* load_estimation_results is called between two runs
LoadResults ==
    /\ pc = "idle"
    /\ returned' = [call |-> "load_estimation_results", status |-> "ok",
                    value |-> Some(LoadEstimationResults(estimateFile, ensembleFile,
                                                         runFiles, historyFile))]
    /\ UNCHANGED <<clock, estimateFile, ensembleFile, runFiles, historyFile,
                   latest_quantum_result, pc, caller, ens, started, finished, atCall,
                   lastProducer, appendLog, arg>>

\* the calibration update that creates the history file
FirstCalibration ==
    /\ IsNone(historyFile)
    /\ UpdateCalibration

\* single runs, ensemble runs, the calibration update and loads in any order
NextLoad ==
    \/ InvokeSingle
    \/ EnsembleCall
    \/ EnsembleIterate
    \/ EstimationReturn
    \/ EnsembleFinish
    \/ FirstCalibration
    \/ LoadResults

\* the analyzer as constructed, with two readings of the clock left
InitLoad == InitEnsemble

SpecLoad == InitLoad /\ [][NextLoad]_vars
----------------------------------------------------------------------------
(* Properties of run_quantum_estimation (SpecParse) *)

\* the call of run_quantum_estimation has returned
Ran == returned.call = "run_quantum_estimation"

\* the console output and the parameters the call was made with
Output == Val(arg).text
GivenParams == Val(arg).qae_params

\* the record the call returned
Record == Val(returned.value)

\* the line the amplitude is read from, if any, and whether its first value
\* converts
AmplitudeLine == OrElse(PairMatch(Output.quantum_canonical), PairMatch(Output.quantum_mean))
AmplitudeParsed ==
    /\ ~IsNone(AmplitudeLine)
    /\ ~IsNone(ToFloat(Some(Val(AmplitudeLine).first)))

CurrentFormat ==
    /\ Output.loss_qubits = Some(4)
    /\ Output.precision = Some(6)
    /\ Output.repetitions = Some(120)
    /\ Output.total_qubits = Some(11)
    /\ IsNone(Output.config)
    /\ ~IsNone(Output.quantum_mean)
    /\ Val(Output.quantum_mean).first = TestAmplitude

\* C14: for an output in the current format reporting loss qubits 4,
\* precision qubits 6, repetitions 120 and total qubits 11, the call returns
\* a record whose metrics.logical_qubits is 7.
C14_LogicalQubitsSeven ==
    (Ran /\ Val(arg).process = "ok" /\ CurrentFormat)
        => /\ ~IsNone(returned.value)
           /\ Record.metrics.logical_qubits = Number(7)

\* C15: metrics.t_count is max(1, phase_bits * repetitions * 4) when the
\* record has both (6 and 120 give 2880, a zero product gives 1) and the
\* marker "N/A" otherwise; instance.parameters.shots equals repetitions.
C15_TCount ==
    (Ran /\ ~IsNone(returned.value))
        => LET bits == Record.metrics.phase_bits
               reps == Record.metrics.repetitions
               t_count == Record.metrics.t_count
           IN  /\ (~IsNone(bits) /\ ~IsNone(reps))
                     => /\ t_count.kind = "number"
                        /\ Val(t_count.value) >= 1
                        /\ Val(t_count.value) >= Val(bits) * Val(reps) * 4
                        /\ Val(t_count.value) \in {1, Val(bits) * Val(reps) * 4}
               /\ (bits = Some(6) /\ reps = Some(120)) => t_count = Number(2880)
               /\ (IsNone(bits) \/ IsNone(reps)) => t_count = NotAvailable
               /\ Record.instance.parameters.shots = Record.instance.parameters.repetitions
               /\ Record.instance.parameters.repetitions = reps

\* C15 witness: a record whose product of phase bits and repetitions is zero
C15_Witness ==
    /\ Ran
    /\ ~IsNone(returned.value)
    /\ Record.metrics.phase_bits = Some(3)
    /\ Record.metrics.repetitions = Some(0)
    /\ Record.metrics.t_count = Number(1)
    /\ Record.instance.parameters.shots = Some(0)

\* the output says nothing about the phase bits, the repetitions, the
\* threshold, the loss qubits
OmitsPhaseBits ==
    IsNone(Output.config) /\ IsNone(Output.precision) /\ Output.histogram = <<>>
OmitsRepetitions == IsNone(Output.config) /\ IsNone(Output.repetitions)
OmitsThreshold == IsNone(Output.threshold)
OmitsLossQubits == IsNone(Output.loss_qubits)

\* C16: a field the output omits (phase bits, repetitions, threshold, loss
\* qubits) is taken from the parameter set the caller supplied, and the
\* record carries the caller's value for it.
C16_FallbackParameters ==
    (Ran /\ ~IsNone(returned.value) /\ ~IsNone(GivenParams))
        => LET given == Val(GivenParams)
               parameters == Record.instance.parameters
           IN  /\ OmitsPhaseBits => parameters.phase_bits = Some(given.precision_bits)
               /\ OmitsRepetitions => parameters.repetitions = Some(given.repetitions)
               /\ OmitsThreshold => parameters.threshold = Some(given.threshold)
               /\ OmitsLossQubits => parameters.loss_qubits = Some(given.loss_qubits)


\* the metrics that carry the marker "N/A" when missing, and the one that is
\* written as a bare number
MarkedMetrics == {"logical_qubits", "physical_qubits", "t_count"}
BareMetrics == {"runtime_days"}

\* the metrics field is the number 0
IsZeroMetric(name) ==
    IF name \in MarkedMetrics THEN Record.metrics[name] = Number(0)
    ELSE IF name \in BareMetrics THEN Record.metrics[name] = 0
    ELSE Record.metrics[name] = Some(0)

\* the metrics field is an unavailable marker: None or "N/A"
IsUnavailableMetric(name) ==
    IF name \in MarkedMetrics THEN Record.metrics[name] = NotAvailable
    ELSE IF name \in BareMetrics THEN FALSE
    ELSE IsNone(Record.metrics[name])

\* what the run yields for the metrics field: a value read from the output
\* or computed from values read from it.  Nothing the run prints or is
\* called with determines runtime_days.
DerivedFromRun(name) ==
    LET e == Extract(Output)
    IN  CASE name \in {"logical_qubits", "physical_qubits"} ->
                ~IsNone(TotalQubits(Output.total_qubits, e.phase_bits, e.loss_qubits))
          [] name = "t_count" -> ~IsNone(e.phase_bits) /\ ~IsNone(e.repeats)
          [] name = "runtime_days" -> FALSE
          [] name = "phase_bits" -> ~IsNone(e.phase_bits)
          [] name = "repetitions" -> ~IsNone(e.repeats)
          [] name = "quantum_estimate" -> ~IsNone(e.quantum_estimate)
          [] name = "quantum_std_error" -> ~IsNone(e.quantum_std)
          [] name = "analytic_probability" -> ~IsNone(e.analytic_prob)
          [] name = "classical_estimate" -> ~IsNone(e.classical_prob)
          [] name = "classical_std_error" -> ~IsNone(e.classical_std)
          [] name = "difference" -> ~IsNone(e.difference)
          [] name \in {"circular_phase", "circular_amplitude"} ->
                CircularStats(e.histogram_counts, e.phase_bits) # NoCircular

\* C22: in every record a metrics field that could not be derived from the
\* run is None or "N/A" and never the number 0; a metrics field equal to 0
\* stands for a derived value.
C22_ZeroIsDerived ==
    (Ran /\ ~IsNone(returned.value))
        => \A name \in DOMAIN Record.metrics :
              /\ ~DerivedFromRun(name) => IsUnavailableMetric(name)
              /\ IsZeroMetric(name) => DerivedFromRun(name)

----------------------------------------------------------------------------
(* Properties of to_float inside run_quantum_estimation (SpecNumeral) *)

\* the threshold and the amplitude as the output prints them
ThresholdText == Val(Output.threshold)
AmplitudeText == Val(Output.quantum_mean).first

\* the numeral a captured string is read as: with a comma and no dot, the
\* string with each comma turned into a dot; with both, the string without
\* its commas; else the string itself
ReadAs(s) ==
    LET comma == \E i \in DOMAIN s : s[i] = ","
        dot == \E i \in DOMAIN s : s[i] = "."
    IN  IF comma /\ ~dot THEN [i \in DOMAIN s |-> IF s[i] = "," THEN "." ELSE s[i]]
        ELSE IF comma /\ dot THEN SelectSeq(s, LAMBDA c : c # ",")
        ELSE s

\* the stored float of a captured string, None when ReadAs(s) is no numeral
Converted(s) ==
    LET parsed == PyFloat(ReadAs(s))
    IN  IF parsed.status = "ok" THEN Some(ToFixed(Val(parsed.value))) ELSE None

\* the record of the same output with the threshold as the test prints it
ReferenceRecord == EstimationRecord(AsciiText, None, clock)

\* C12: a captured value with a comma and no dot is read with the comma as
\* decimal point ("0,18333333333333332" is 0.18333333333333332), one with
\* comma and dot is read with its commas removed, and a value that is still
\* no numeral makes its field None without an exception: an invalid
\* threshold leaves every other field of the record as it is, an invalid
\* amplitude leaves the run without an estimate.
C12_NumericConversion ==
    Ran => /\ returned.status = "ok"
           /\ ToFloat(Some(TestAmplitude))
                 = Some([neg |-> FALSE, int |-> <<>>,
                         frac |-> <<1, 8, 3, 3, 3, 3, 3, 3, 3, 3, 3, 3, 3, 3, 3, 3, 2>>])
           /\ AmplitudeText = TestAmplitude
                 => /\ ~IsNone(returned.value)
                    /\ Record.metrics.quantum_estimate = Some(18333)
                    /\ Record.instance.parameters.threshold = Converted(ThresholdText)
                    /\ Record =
                         [ReferenceRecord EXCEPT
                             !.instance.parameters.threshold = Converted(ThresholdText),
                             !.estimator_target = EstimatorTarget(Converted(ThresholdText)),
                             !.raw_output = Output]
           /\ AmplitudeText # TestAmplitude
                 => IF IsNone(Converted(AmplitudeText)) THEN IsNone(returned.value)
                    ELSE /\ ~IsNone(returned.value)
                         /\ Record.metrics.quantum_estimate = Converted(AmplitudeText)
                         /\ Record.instance.parameters.threshold = Some(25 * (Unit \div 10))

\* C12 witness: a threshold printed with a comma and a dot, "1,1.", was read
\* with the comma removed, as 11.0
C12_Witness ==
    /\ Ran
    /\ ThresholdText = <<"1", ",", "1", ".">>
    /\ ~IsNone(returned.value)
    /\ Record.instance.parameters.threshold = Some(11 * Unit)

----------------------------------------------------------------------------
(* Properties of the phase histogram and its circular analysis
   (SpecHistogram) *)

\* the histogram of the returned record (empty when the record has none),
\* its phase bits, and the denominator 2^phase_bits of its circular analysis
Counts == IF IsNone(Record.histogram_counts) THEN <<>> ELSE Val(Record.histogram_counts)
Bits == Record.metrics.phase_bits
D == Pow2(Val(Bits))

\* the circular pair of the returned record
Pair ==
    [circular_amplitude |-> Record.metrics.circular_amplitude,
     circular_phase |-> Record.metrics.circular_phase]

KeysInRange == \A k \in DOMAIN Counts : 0 <= k /\ k < D

\* C17: every outcome key of a recorded histogram is in [0, D), D =
\* 2^phase_bits being the denominator of the record's circular analysis,
\* whatever denominators and outcome indices the histogram lines carry.
C17_KeysBelowDenominator ==
    (Ran /\ ~IsNone(returned.value) /\ ~IsNone(Record.histogram_counts) /\ ~IsNone(Bits))
        => KeysInRange

\* the magnitude of the count-normalized complex sum is below the floor
MagnitudeBelowFloor ==
    /\ DOMAIN Counts # {}
    /\ ~IsNone(Bits)
    /\ TotalCounts(Counts) > 0
    /\ Magnitude(ComplexMean(Counts, D)) <= MagnitudeFloor

PairUndefined ==
    IsNone(Record.metrics.circular_amplitude) /\ IsNone(Record.metrics.circular_phase)
PairDefined ==
    ~IsNone(Record.metrics.circular_amplitude) /\ ~IsNone(Record.metrics.circular_phase)

\* the record carries everything else the output holds
OtherFieldsProduced ==
    /\ ~IsNone(returned.value)
    /\ Record.metrics.quantum_estimate = Some(18333)
    /\ Record.metrics.quantum_std_error = Some(3532)
    /\ Record.metrics.phase_bits = PhaseBits(Output)
    /\ Record.instance.parameters.repetitions = Repeats(Output)
    /\ Record.histogram_counts
          = IF Output.histogram = <<>> THEN None ELSE Some(HistogramCounts(Output.histogram))
    /\ estimateFile = returned.value

Moved(counts, k, denom) ==
    [x \in (DOMAIN counts \ {k}) \cup {denom - k} |->
        (IF x \in DOMAIN counts \ {k} THEN counts[x] ELSE 0)
        + (IF x = denom - k THEN counts[k] ELSE 0)]

\* C19: for a histogram with keys in [0, D), moving the count of any outcome
\* k to outcome D - k leaves the circular amplitude and phase unchanged, and
\* a defined phase is in [0, 0.5].
C19_ReflectionSymmetry ==
    (Ran /\ ~IsNone(returned.value) /\ ~IsNone(Bits) /\ KeysInRange)
        => /\ \A k \in DOMAIN Counts : CircularStats(Moved(Counts, k, D), Bits) = Pair
           /\ ~IsNone(Pair.circular_phase)
                 => /\ 0 <= Val(Pair.circular_phase)
                    /\ Val(Pair.circular_phase) <= Unit \div 2

\* C19 witness: outcomes 1 and 3 of D = 8 with a defined pair; moving the
\* count of 3 to 5 sets unfolded angles against each other
C19_Witness ==
    /\ Ran
    /\ ~IsNone(returned.value)
    /\ Bits = Some(3)
    /\ DOMAIN Counts = {1, 3}
    /\ Counts[1] = 1
    /\ Counts[3] = 1
    /\ Pair.circular_phase = Some(Unit \div 4)
    /\ CircularStats(Moved(Counts, 3, D), Bits) = Pair

----------------------------------------------------------------------------
(* Properties of the calibration entry (SpecCalibration) *)

\* the entry appended by the step, and the number of entries before it
AppendedEntry ==
    LET records == Val(historyFile').records.val IN records[Len(records)]
EntriesBefore ==
    IF IsNone(historyFile) THEN 0 ELSE Len(Val(historyFile).records.val)

\* r is |estimate - theoretical| / |theoretical| * 100 at the resolution of
\* PercentUnit
IsRelativeErrorPercent(r, estimate, theoretical) ==
    LET distance == IF estimate >= theoretical THEN estimate - theoretical
                    ELSE theoretical - estimate
        size == IF theoretical >= 0 THEN theoretical ELSE -theoretical
    IN  /\ r * size <= distance * 100 * PercentUnit
        /\ distance * 100 * PercentUnit < (r + 1) * size

\* C20: whenever load_latest hands the update a record, the entry is
\* appended, and its relative_error_percent is |quantum_estimate -
\* theoretical| / |theoretical| * 100 when estimate and theoretical value are
\* both known and the theoretical value is not 0, and None in every other
\* case.
C20_RelativeError ==
    [][(returned'.call = "main" /\ LoadLatest(ensembleFile, estimateFile).status = "ok")
          => /\ returned'.status = "ok"
             /\ Len(Val(historyFile').records.val) = EntriesBefore + 1
             /\ LET estimate == AppendedEntry.quantum_estimate
                    theoretical == AppendedEntry.theoretical
                    error == AppendedEntry.relative_error_percent
                IN  IF ~IsNone(estimate) /\ ~IsNone(theoretical) /\ Val(theoretical) # 0
                    THEN /\ ~IsNone(error)
                         /\ IsRelativeErrorPercent(Val(error), Val(estimate),
                                                   Val(theoretical))
                    ELSE IsNone(error)]_vars

\* C20 witness: an entry with a known estimate and the theoretical value 0
\* was appended without a relative error
C20_Witness ==
    /\ returned.call = "main"
    /\ returned.status = "ok"
    /\ LastEntry.quantum_estimate = Some(21 * 1000)
    /\ LastEntry.theoretical = Some(0)
    /\ IsNone(LastEntry.relative_error_percent)

----------------------------------------------------------------------------
(* Properties of writing and reading back a record (SpecRoundTrip) *)

ReadBackDone == returned.call = "json.load"
Written == Val(arg)
Loaded == Val(returned.value)

\* C21: the record read back from the written document equals the record in
\* memory in every numeric field, the outcome indices and counts of the
\* histogram included.
C21_RoundTrip ==
    ReadBackDone => Loaded = Numbers(Written)

----------------------------------------------------------------------------
(* Properties of interleaved append_history calls (SpecConcurrent) *)

\* both invocations have returned a count
BothAppended ==
    /\ \A p \in Invocations : pc[p] = "done"
    /\ \A i \in DOMAIN appendLog : appendLog[i].status = "ok"

\* both read before either wrote; one ran after the other
BothReadFirst == \A i \in DOMAIN started : started[i].writes = 0
OneAfterAnother == started[2].writes = 1

\* the entries of a history file, none for no file or no records member
EntriesOf(file) ==
    IF IsNone(file) THEN <<>>
    ELSE IF Val(file).records.tag = "list" THEN Val(file).records.val
    ELSE <<>>

\* C23: when two invocations of append_history both read before either
\* writes, the final document holds the entries found plus only the entry
\* of the invocation that wrote last, and both return the same count; when
\* one invocation runs after the other, both entries are there in order and
\* the counts differ by one.
C23_LostUpdate ==
    BothAppended
        => LET found == EntriesOf(atCall)
               final == EntriesOf(historyFile)
           IN  /\ BothReadFirst
                     => /\ final = Append(found, arg[finished[2]])
                        /\ appendLog[1].count = Len(found) + 1
                        /\ appendLog[2].count = Len(found) + 1
               /\ OneAfterAnother
                     => /\ final = found \o <<arg[finished[1]], arg[finished[2]]>>
                        /\ appendLog[1].count = Len(found) + 1
                        /\ appendLog[2].count = Len(found) + 2
               /\ BothReadFirst \/ OneAfterAnother

\* C23 witness: both invocations read the one stored entry, both returned 2,
\* and the entry of the first writer is gone
C23_Witness ==
    /\ BothAppended
    /\ BothReadFirst
    /\ Len(EntriesOf(atCall)) = 1
    /\ arg[1] # arg[2]
    /\ appendLog[1].count = 2
    /\ appendLog[2].count = 2
    /\ Len(EntriesOf(historyFile)) = 2
    /\ \A i \in DOMAIN EntriesOf(historyFile) :
          EntriesOf(historyFile)[i] # arg[finished[1]]

----------------------------------------------------------------------------
(* Properties of wait_for_completion and run_job_complete (SpecJob) *)

\* wait_for_completion was entered and has returned; its result
WaitReturned == pc \in {"retrieve", "returned", "done"} /\ ~IsNone(ens.job_id)
WaitResult == ens.final_status

\* a reply without a job status
NoStatus(reply) == IsNone(reply)

\* C24: wait_for_completion returns None or a status that is succeeded,
\* failed or cancelled in any spelling of case; a failed status query is the
\* last one and makes the result None; a result of None after a query that
\* was answered means the timeout has elapsed; the number of queries is at
\* most the timeout in sleeps, and the call returns in the end.
C24_WaitEnds ==
    /\ [](WaitReturned
            => /\ ~IsNone(WaitResult)
                     => /\ JobStatusOf(Val(WaitResult)) \in FinalStatuses
                        /\ finished # <<>>
                        /\ WaitResult = finished[Len(finished)]
               /\ (finished # <<>> /\ NoStatus(finished[Len(finished)]))
                     => IsNone(WaitResult)
               /\ (IsNone(WaitResult)
                     /\ (finished = <<>> \/ ~NoStatus(finished[Len(finished)])))
                     => clock - ens.start_time >= ens.timeout_seconds)
    /\ [](/\ \A i \in DOMAIN finished : NoStatus(finished[i]) => i = Len(finished)
          /\ Len(finished) <= arg.timeout_seconds)
    /\ <>(pc = "done")

\* C24 witness: two queries answered with a status that is not final, then
\* the timeout
C24_Witness ==
    /\ WaitReturned
    /\ caller = "none"
    /\ Len(finished) = 2
    /\ ~NoStatus(finished[2])
    /\ JobStatusOf(Val(finished[2])) \notin FinalStatuses
    /\ IsNone(WaitResult)
    /\ clock - ens.start_time >= ens.timeout_seconds

\* C25: run_job_complete issues no status query after a failed submission,
\* fetches the output only after a final status of succeeded, and every
\* value it returns other than None is the combined record with job_id,
\* status and results, so that main's result['job_id'] is defined.
C25_CombinedRecord ==
    (arg.command = "run" /\ pc \in {"returned", "done"})
        => /\ started[1] = "submit"
           /\ IsNone(ens.job_id) => started = <<"submit">>
           /\ (\E i \in DOMAIN started : started[i] = "output")
                 => /\ started[Len(started)] = "output"
                    /\ JobStatusOf(Val(ens.final_status)) = "succeeded"
           /\ ~IsNone(returned.value)
                 => {"job_id", "status", "results"} \subseteq DOMAIN Val(returned.value)
           /\ returned.call = "main" => returned.status = "ok"

----------------------------------------------------------------------------
(* Properties of the order of the patterns (SpecOrder) *)

\* the match of the canonical pattern where there is one, else that of the
\* generic pattern
FirstOf(canonical, generic) == IF ~IsNone(canonical) THEN canonical ELSE generic

AmplitudeMatch == FirstOf(PairMatch(Output.quantum_canonical), PairMatch(Output.quantum_mean))
AnalyticMatch == FirstOf(Output.analytic_canonical, Output.analytic_theoretical)
ClassicalMatch ==
    FirstOf(PairMatch(Output.classical_canonical), PairMatch(Output.classical_samples))

\* C26: each field is read from its canonical line whenever that pattern
\* matches, and from the generic line only when the canonical pattern matches
\* nowhere: the amplitude estimate and its error, the analytical probability,
\* and the classical estimate and its error.  A canonical capture that does
\* not convert leaves the field unavailable (for the amplitude: no record).
C26_FirstMatchWins ==
    Ran =>
        IF IsNone(FloatOf(Group(AmplitudeMatch, "first")))
        THEN IsNone(returned.value)
        ELSE /\ ~IsNone(returned.value)
             /\ Record.metrics.quantum_estimate = FloatOf(Group(AmplitudeMatch, "first"))
             /\ Record.metrics.quantum_std_error = FloatOf(Group(AmplitudeMatch, "second"))
             /\ Record.metrics.analytic_probability = FloatOf(AnalyticMatch)
             /\ Record.metrics.classical_estimate = FloatOf(Group(ClassicalMatch, "first"))
             /\ Record.metrics.classical_std_error = FloatOf(Group(ClassicalMatch, "second"))

\* C26 witness: canonical and generic lines of all three fields match, and
\* the record carries the canonical values 0.3, 0.2 and 0.25
C26_Witness ==
    /\ Ran
    /\ ~IsNone(returned.value)
    /\ ~IsNone(PairMatch(Output.quantum_canonical))
    /\ ~IsNone(PairMatch(Output.quantum_mean))
    /\ ~IsNone(Output.analytic_canonical)
    /\ ~IsNone(Output.analytic_theoretical)
    /\ ~IsNone(PairMatch(Output.classical_canonical))
    /\ ~IsNone(PairMatch(Output.classical_samples))
    /\ Record.metrics.quantum_estimate = Some((3 * Unit) \div 10)
    /\ Record.metrics.analytic_probability = Some((2 * Unit) \div 10)
    /\ Record.metrics.classical_estimate = Some((25 * Unit) \div 100)

\* b is round(log2(d)) for d > 0: 2^(b - 1/2) < d < 2^(b + 1/2)
IsRoundLog2(b, d) == Pow2(2 * b) < 2 * d * d /\ d * d < Pow2(2 * b + 1)

\* the denominator of the last histogram line, 0 when there is none
ObservedDenominator ==
    IF Output.histogram = <<>> THEN 0
    ELSE Output.histogram[Len(Output.histogram)].denominator

\* C27: the phase-bit count of the record is that of the combined
\* "phase bits=X, repeats=Y" form; else that of the "Precision qubits"
\* label; else round(log2(N)) of the histogram denominator N > 0; else it is
\* unavailable.
C27_PhaseBitPrecedence ==
    (Ran /\ ~IsNone(returned.value)) =>
        LET phase_bits == Record.metrics.phase_bits
        IN  /\ Record.instance.parameters.phase_bits = phase_bits
            /\ IF ~IsNone(Output.config) THEN phase_bits = Some(Val(Output.config).phase_bits)
               ELSE IF ~IsNone(Output.precision) THEN phase_bits = Output.precision
               ELSE IF ObservedDenominator > 0
               THEN /\ ~IsNone(phase_bits)
                    /\ IsRoundLog2(Val(phase_bits), ObservedDenominator)
               ELSE IsNone(phase_bits)

\* C27 witness: all three sources are present with different values (5, 4
\* and a denominator of 64), and the record has the 5 of the combined form
C27_Witness ==
    /\ Ran
    /\ ~IsNone(returned.value)
    /\ Output.config = Some([phase_bits |-> 5, repeats |-> 120])
    /\ Output.precision = Some(4)
    /\ ObservedDenominator = 64
    /\ Record.metrics.phase_bits = Some(5)

----------------------------------------------------------------------------
(* Properties of latest_quantum_result (Spec) *)

\* C28: once a call of run_quantum_estimation or run_quantum_ensemble has
\* returned, latest_quantum_result is the value it returned, None included.
C28_LatestIsReturned ==
    (pc = "idle" /\ returned.call \in {"single", "ensemble"})
        => latest_quantum_result = returned.value

\* the same for every call but an ensemble call with a run count that is not
\* positive
C28_LatestIsReturnedForRuns ==
    [][(pc # "idle" /\ pc' = "idle") => latest_quantum_result' = returned'.value]_vars

----------------------------------------------------------------------------
(* Properties of the ensemble summary on disk (Spec) *)

\* the runs the summary includes and their amplitude estimates
IncludedRuns == Val(ensembleFile).ensemble.runs
IncludedAmplitudes ==
    [i \in 1..Len(IncludedRuns) |-> Val(IncludedRuns[i].metrics.quantum_estimate)]

\* C29: in every ensemble summary written by run_quantum_ensemble each
\* included run has an amplitude estimate, so the mean, the population
\* standard deviation and the standard error are taken over n =
\* ensemble_runs values.
C29_EveryRunCounted ==
    ~IsNone(ensembleFile) =>
        LET metrics == Val(ensembleFile).metrics
            n == Val(metrics.ensemble_runs)
        IN  /\ n = Len(IncludedRuns)
            /\ n >= 1
            /\ \A i \in 1..n : ~IsNone(IncludedRuns[i].metrics.quantum_estimate)
            /\ metrics.quantum_estimate = Some(SumSeq(IncludedAmplitudes) \div n)
            /\ metrics.ensemble_std_deviation = Some(PStdev(IncludedAmplitudes))
            /\ metrics.ensemble_std_error
                 = Some((PStdev(IncludedAmplitudes) * RootUnit)
                          \div ISqrt(n * RootUnit * RootUnit))

\* C29 witness: a summary of two runs with the estimates 0.10 and 0.12, the
\* mean 0.11 and the deviation 0.01
C29_Witness ==
    /\ ~IsNone(ensembleFile)
    /\ Val(ensembleFile).metrics.ensemble_runs = Some(2)
    /\ IncludedAmplitudes = <<10 * 1000, 12 * 1000>>
    /\ Val(ensembleFile).metrics.quantum_estimate = Some(11 * 1000)
    /\ Val(ensembleFile).metrics.ensemble_std_deviation = Some(1000)

----------------------------------------------------------------------------
(* Properties of load_estimation_results (SpecLoad) *)

Loaded_results == Val(returned.value)

\* the result artifacts: the single-run record, the per-run records and the
\* ensemble summary
IsArtifact(name) ==
    name.stem \in {"quantum_estimate", "quantum_estimate_ensemble", "quantum_estimate_run"}

\* C30: every document load_estimation_results returns is a result
\* artifact, never the calibration history, and the last one has the newest
\* timestamp.
C30_OnlyArtifacts ==
    returned.call = "load_estimation_results" =>
        /\ \A i \in DOMAIN Loaded_results : IsArtifact(Loaded_results[i].source_file)
        /\ Loaded_results # <<>> =>
              \A i \in DOMAIN Loaded_results :
                 /\ "timestamp" \in DOMAIN Loaded_results[Len(Loaded_results)].document
                 /\ TimestampKey(Loaded_results[i])
                      <= TimestampKey(Loaded_results[Len(Loaded_results)])

\* the part about the last element alone: it is an artifact and no returned
\* document has a later timestamp
C30_LastIsNewest ==
    (returned.call = "load_estimation_results" /\ Loaded_results # <<>>) =>
        /\ IsArtifact(Loaded_results[Len(Loaded_results)].source_file)
        /\ \A i \in DOMAIN Loaded_results :
              TimestampKey(Loaded_results[i])
                 <= TimestampKey(Loaded_results[Len(Loaded_results)])

\* a load that returned the calibration history among two artifacts
C30_HistoryReturned ==
    /\ returned.call = "load_estimation_results"
    /\ Len(Loaded_results) >= 3
    /\ Loaded_results[1].source_file = HistoryName

====
